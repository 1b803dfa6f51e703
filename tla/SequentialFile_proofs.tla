------------------------- MODULE SequentialFile_proofs -------------------------
(***************************************************************************)
(* Proofs about SequentialFile for any files, records and record sizes.    *)
(***************************************************************************)
EXTENDS SequentialFile, SequenceTheorems, FiniteSetTheorems, WellFoundedInduction, TLAPS

-----------------------------------------------------------------------------
(* What the files have to be.  lineseq_read goes astray at the end of a file *)
(* that ends in a CR, and with COB_LS_SPLIT at the end of one whose last     *)
(* line fills the record and has no LF.                                      *)

Ended(data) ==
  data # <<>> =>
    /\ data[Len(data)] # "CR"
    /\ Len(data) < RecordMax \/ \E k \in 0..RecordMax - 1 : data[Len(data) - k] = "LF"

FilesEnd == \A data \in Contents["LINE"] \cup Second["LINE"] : Ended(data)
LinesAdvance == \A adv \in Advances : adv.lines > 0

-----------------------------------------------------------------------------
(* The inductive invariant: types. *)

ReadModes == {"INPUT", "I-O"}
WriteModes == {"OUTPUT", "EXTEND"}
Reading == mode \in ReadModes
Codes == Good \cup {"10", "39", "41", "42", "43", "44", "46", "47", "48", "49", "71"}

FileTypes == org \in Organizations /\ split \in BOOLEAN /\ files \in Seq(Seq(Cells)) /\ Len(files) \in 1..2 /\ cur \in 1..Len(files)
PlaceTypes == pos \in Nat /\ recOff \in Nat /\ from \in Nat
ModeTypes == /\ mode \in {"CLOSED"} \cup ReadModes \cup WriteModes /\ pc \in {"idle", "getc", "next"}
             /\ readDone \in BOOLEAN /\ eof \in BOOLEAN /\ needsNl \in BOOLEAN /\ status \in Codes
RecordTypes == record \in Seq(Cells) /\ Len(record) <= RecordMax /\ recSize \in 0..9

\* What goes with a mode.
Control ==
  /\ pc = "getc" => org = "LINE" /\ Reading /\ ~readDone
  /\ pc = "next" => org = "VARIABLE" /\ Reading /\ ~readDone
  /\ readDone => Reading
  /\ mode \in WriteModes => cur = 1 /\ Len(files) = 1 /\ pos = Len(bytes)
  /\ needsNl => mode \in WriteModes

Types == FileTypes /\ PlaceTypes /\ ModeTypes /\ RecordTypes /\ Control

-----------------------------------------------------------------------------
(* LINE SEQUENTIAL: the line being read. *)

\* The cells behind p up to q are part of one line.
Plain(data, p, q) ==
  \A k \in p + 1..q : data[k] # "LF" /\ ~(data[k] = "CR" /\ k < Len(data) /\ data[k + 1] = "LF")

\* A line begins at p, or with COB_LS_SPLIT the rest of one, which is not empty.
LineStart(data, p) ==
  \/ p = 0 \/ data[p] = "LF"
  \/ split /\ RecordMax <= p /\ p < Len(data) /\ Plain(data, p - RecordMax, p + 1)

\* What READ has of the line at f when it is at p.
StatusSoFar(data, f, p) ==
  IF p - f > RecordMax THEN "04" ELSE IF \E k \in f + 1..p : IsBadChar(data[k]) THEN "09" ELSE "00"
SoFar(data, f, p, rec, st) ==
  /\ f <= p /\ p <= Len(data) /\ Plain(data, f, p)
  /\ rec = SubSeq(data, f + 1, f + Smaller(p - f, RecordMax))
  /\ st = StatusSoFar(data, f, p)

Taking ==
  /\ SoFar(bytes, from, pos, record, status)
  /\ split => pos - from < RecordMax
  /\ (LineStart(bytes, from) \/ from = Len(bytes)) /\ (mode = "I-O" => recOff = from)

LineInv ==
  org = "LINE" =>
    /\ mode \notin WriteModes => \A k \in 1..Len(files) : Ended(files[k])
    /\ mode \in WriteModes => needsNl \/ Ended(bytes)
    /\ pc = "getc" => Taking
    /\ Reading /\ pc = "idle" => pos <= Len(bytes) /\ (LineStart(bytes, pos) \/ pos = Len(bytes))

-----------------------------------------------------------------------------
(* SEQUENTIAL with variable length: the chain of records. *)

\* READ is behind a place where the file is no chain of records.
Astray(data, p) ==
  \E b \in Starts(data) :
    b < Len(data) /\ b < p /\ (~HasRecord(data, b) \/ (Len(data) < Behind(data, b) /\ Len(data) <= p))

VariableInv == org = "VARIABLE" /\ Reading => pos \in Starts(bytes) \/ Astray(bytes, pos)

-----------------------------------------------------------------------------
(* The record last read. *)

\* Behind the length of a record that the cells from p - n to p belong to.
Room(data, p, n) ==
  \E q \in Starts(data) : q < Len(data) /\ q + 1 <= p - n /\ (HasRecord(data, q) => p <= Behind(data, q))

DoneInv ==
  readDone =>
    /\ recSize = Len(record)
    /\ org = "LINE" => LineStart(bytes, from) /\ from < pos /\ (mode = "I-O" => recOff = from)
                       /\ pos <= Len(bytes) /\ \A k \in from + 1..pos - 1 : bytes[k] # "LF"
    /\ org = "VARIABLE" => Room(bytes, pos, recSize)
    /\ status \in Good /\ Sound(bytes) =>
         from \in 0..Len(bytes) - 1
         /\ RecordAt(bytes, from) = [record |-> record, pos |-> pos, status |-> status]
         /\ (org = "VARIABLE" => from \in Starts(bytes))

IInv == Types /\ LineInv /\ VariableInv /\ DoneInv

-----------------------------------------------------------------------------
(* Sequences and numbers. *)

LEMMA LeastOf ==
  ASSUME NEW M \in SUBSET Nat, M # {}
  PROVE  \E n \in M : \A m \in M : n <= m
  <1>1. PICK x \in M : TRUE
    OBVIOUS
  <1>2. IsWellFoundedOn(OpToRel(<, Nat), Nat)
    BY NatLessThanWellFounded
  <1>3. PICK n \in M : \A m \in M : ~(<<m, n>> \in OpToRel(<, Nat))
    BY <1>1, <1>2, WFMin
  <1>4. ASSUME NEW m \in M PROVE n <= m
    <2>1. m \in Nat /\ n \in Nat /\ ~(m < n)
      BY <1>3 DEF OpToRel
    <2> QED BY <2>1
  <1> QED BY <1>4

LEMMA MinIs ==
  ASSUME NEW S \in SUBSET Nat, NEW x \in S, \A y \in S : x <= y
  PROVE  Min(S) = x
  <1>1. \E z \in S : \A y \in S : z <= y
    OBVIOUS
  <1>2. PICK z : z = Min(S)
    OBVIOUS
  <1>3. z \in S /\ \A y \in S : z <= y
    BY <1>1, <1>2 DEF Min
  <1> QED BY <1>2, <1>3

LEMMA MaxIs ==
  ASSUME NEW S \in SUBSET Nat, NEW x \in S, \A y \in S : x >= y
  PROVE  Max(S) = x
  <1>1. \E z \in S : \A y \in S : z >= y
    OBVIOUS
  <1>2. PICK z : z = Max(S)
    OBVIOUS
  <1>3. z \in S /\ \A y \in S : z >= y
    BY <1>1, <1>2 DEF Max
  <1> QED BY <1>2, <1>3

LEMMA SmallerIs ==
  ASSUME NEW a \in Nat, NEW b \in Nat
  PROVE  Smaller(a, b) = IF a <= b THEN a ELSE b
  <1>1. CASE a <= b
    <2>1. Min({a, b}) = a
      BY <1>1, MinIs
    <2> QED BY <1>1, <2>1 DEF Smaller
  <1>2. CASE ~(a <= b)
    <2>1. Min({a, b}) = b
      BY <1>2, MinIs
    <2> QED BY <1>2, <2>1 DEF Smaller
  <1> QED BY <1>1, <1>2

LEMMA PutIs ==
  ASSUME NEW data \in Seq(Cells), NEW p \in Nat, NEW new \in Seq(Cells)
  PROVE  /\ Put(data, p, new) \in Seq(Cells)
         /\ Len(Put(data, p, new)) = IF Len(data) >= p + Len(new) THEN Len(data) ELSE p + Len(new)
         /\ \A k \in 1..Len(Put(data, p, new)) :
              Put(data, p, new)[k] = IF k \in p + 1..p + Len(new) THEN new[k - p]
                                     ELSE IF k <= Len(data) THEN data[k] ELSE "NUL"
  <1>1. PICK m \in Nat : m = IF Len(data) >= p + Len(new) THEN Len(data) ELSE p + Len(new)
    OBVIOUS
  <1>2. Max({Len(data), p + Len(new)}) = m
    BY <1>1, MaxIs
  <1>3. PICK f : f = [k \in 1..m |-> IF k \in p + 1..p + Len(new) THEN new[k - p]
                                     ELSE IF k <= Len(data) THEN data[k] ELSE "NUL"]
    OBVIOUS
  <1>4. Put(data, p, new) = f
    BY <1>2, <1>3 DEF Put
  <1>5. ASSUME NEW k \in 1..m PROVE f[k] \in Cells
    <2>1. CASE k \in p + 1..p + Len(new)
      <3>1. k - p \in 1..Len(new)
        BY <2>1
      <3> QED BY <1>3, <2>1, <3>1
    <2>2. CASE k \notin p + 1..p + Len(new)
      <3>1. "NUL" \in Cells
        BY DEF Cells
      <3>2. k <= Len(data) => data[k] \in Cells
        OBVIOUS
      <3> QED BY <1>3, <2>2, <3>1, <3>2
    <2> QED BY <2>1, <2>2
  <1>6. f \in [1..m -> Cells]
    BY <1>3, <1>5
  <1>7. f \in Seq(Cells) /\ Len(f) = m
    BY <1>6
  <1> QED BY <1>1, <1>3, <1>4, <1>7

LEMMA SubSeqIs ==
  ASSUME NEW data \in Seq(Cells), NEW p \in Nat, NEW q \in Nat, p <= q, q <= Len(data)
  PROVE  /\ SubSeq(data, p + 1, q) \in Seq(Cells) /\ Len(SubSeq(data, p + 1, q)) = q - p
         /\ \A k \in 1..q - p : SubSeq(data, p + 1, q)[k] = data[p + k]
  OBVIOUS

\* Two sequences are the same.
LEMMA SameSeq ==
  ASSUME NEW s \in Seq(Cells), NEW t \in Seq(Cells), Len(s) = Len(t), \A k \in 1..Len(s) : s[k] = t[k]
  PROVE  s = t
  OBVIOUS

LEMMA DigitsIs ==
  /\ \A n \in 0..9 : LengthCell(n) \in Lengths /\ LengthIn(LengthCell(n)) = n
  /\ \A c \in Lengths : LengthIn(c) \in 0..9
  /\ "EOF" \notin Cells /\ "LF" \notin Lengths /\ "CR" \notin Lengths
  <1>1. \A n \in 0..9 : LengthCell(n) \in Lengths
    BY DEF LengthCell, Lengths
  <1>2. \A m, n \in 0..9 : LengthCell(m) = LengthCell(n) => m = n
    BY DEF LengthCell, Digits
  <1>3. \A c \in Lengths : \E n \in 0..9 : LengthCell(n) = c
    <2> SUFFICES ASSUME NEW k \in 1..10 PROVE \E n \in 0..9 : LengthCell(n) = Digits[k]
      BY DEF Lengths
    <2>1. k - 1 \in 0..9 /\ (k - 1) + 1 = k
      OBVIOUS
    <2> QED BY <2>1 DEF LengthCell
  <1>4. \A c \in Lengths : LengthIn(c) \in 0..9 /\ LengthCell(LengthIn(c)) = c
    BY <1>3 DEF LengthIn
  <1>5. Lengths = {"0", "1", "2", "3", "4", "5", "6", "7", "8", "9"}
    BY DEF Lengths, Digits
  <1> QED BY <1>1, <1>2, <1>4, <1>5 DEF Cells

-----------------------------------------------------------------------------
(* What a line is. *)

LEMMA LineEndIs ==
  ASSUME NEW data \in Seq(Cells), NEW p \in Nat, NEW e \in Nat, p < e, e <= Len(data) + 1,
         e <= Len(data) => data[e] = "LF", \A k \in p + 1..e - 1 : data[k] # "LF"
  PROVE  LineEnd(data, p) = e
  <1>1. PICK S : S = {k \in p + 1..Len(data) : data[k] = "LF"} \cup {Len(data) + 1}
    OBVIOUS
  <1>2. S \in SUBSET Nat /\ e \in S
    BY <1>1
  <1>3. \A k \in S : e <= k
    <2> SUFFICES ASSUME NEW k \in S, ~(e <= k) PROVE FALSE
      OBVIOUS
    <2>1. k \in p + 1..e - 1 /\ data[k] = "LF"
      BY <1>1
    <2> QED BY <2>1
  <1> QED BY <1>1, <1>2, <1>3, MinIs DEF LineEnd

\* The record of n cells from p, with the next one at q.
LineRec(data, p, n, q) ==
  [record |-> SubSeq(data, p + 1, p + Smaller(n, RecordMax)), pos |-> q,
   status |-> StatusSoFar(data, p, p + n)]

LEMMA BadIn ==
  ASSUME NEW data \in Seq(Cells), NEW p \in Nat, NEW n \in Nat, p + n <= Len(data)
  PROVE  (\E k \in DOMAIN SubSeq(data, p + 1, p + n) : IsBadChar(SubSeq(data, p + 1, p + n)[k]))
           <=> \E k \in p + 1..p + n : IsBadChar(data[k])
  <1>0. PICK q \in Nat : q = p + n
    OBVIOUS
  <1>1. PICK s : s = SubSeq(data, p + 1, p + n) /\ s \in Seq(Cells) /\ Len(s) = n /\ \A k \in 1..n : s[k] = data[p + k]
    <2>1. p <= q /\ q - p = n /\ q <= Len(data)
      BY <1>0
    <2>2. /\ SubSeq(data, p + 1, q) \in Seq(Cells) /\ Len(SubSeq(data, p + 1, q)) = q - p
          /\ \A k \in 1..q - p : SubSeq(data, p + 1, q)[k] = data[p + k]
      BY <2>1, SubSeqIs
    <2> QED BY <1>0, <2>1, <2>2
  <1>2. DOMAIN s = 1..n
    BY <1>1
  <1>3. ASSUME NEW k \in p + 1..p + n, IsBadChar(data[k]) PROVE \E i \in 1..n : IsBadChar(s[i])
    <2>1. k - p \in 1..n /\ p + (k - p) = k
      OBVIOUS
    <2>2. s[k - p] = data[k]
      BY <1>1, <2>1
    <2> QED BY <1>3, <2>1, <2>2
  <1>4. ASSUME NEW i \in 1..n, IsBadChar(s[i]) PROVE \E k \in p + 1..p + n : IsBadChar(data[k])
    <2>1. p + i \in p + 1..p + n
      OBVIOUS
    <2> QED BY <1>1, <1>4, <2>1
  <1> QED BY <1>1, <1>2, <1>3, <1>4

\* A line whose text is from p to q.
LEMMA LineDone ==
  ASSUME NEW data \in Seq(Cells), NEW p \in Nat, NEW q \in Nat, p <= q, q <= Len(data), Plain(data, p, q),
         split => q - p <= RecordMax, NEW next \in Nat,
         \/ q = Len(data) /\ next = q
         \/ q < Len(data) /\ data[q + 1] = "LF" /\ next = q + 1
         \/ q + 1 < Len(data) /\ data[q + 1] = "CR" /\ data[q + 2] = "LF" /\ next = q + 2
  PROVE  LineAt(data, p) = LineRec(data, p, q - p, next)
  <1>1. LineLen(data, p) = q - p /\ Smaller(LineEnd(data, p), Len(data)) = next
    <2>1. CASE q = Len(data) /\ next = q
      <3>1. LineEnd(data, p) = Len(data) + 1
        <4>1. \A k \in p + 1..(Len(data) + 1) - 1 : data[k] # "LF"
          BY <2>1 DEF Plain
        <4> QED BY <2>1, <4>1, LineEndIs
      <3>2. Smaller(Len(data) + 1, Len(data)) = Len(data)
        BY SmallerIs
      <3> QED BY <2>1, <3>1, <3>2 DEF LineLen
    <2>2. CASE q < Len(data) /\ data[q + 1] = "LF" /\ next = q + 1
      <3>1. LineEnd(data, p) = q + 1
        <4>1. \A k \in p + 1..(q + 1) - 1 : data[k] # "LF"
          BY DEF Plain
        <4>2. q + 1 \in Nat /\ p < q + 1 /\ q + 1 <= Len(data) + 1
          BY <2>2
        <4> QED BY <2>2, <4>1, <4>2, LineEndIs
      <3>2. ~(q + 1 > p + 1 /\ data[(q + 1) - 1] = "CR")
        <4> SUFFICES ASSUME q > p, data[q] = "CR" PROVE FALSE
          OBVIOUS
        <4>1. q \in p + 1..q
          OBVIOUS
        <4> QED BY <2>2, <4>1 DEF Plain
      <3>3. (q + 1) - p - 1 = q - p /\ Smaller(q + 1, Len(data)) = q + 1
        BY <2>2, SmallerIs
      <3> QED BY <2>2, <3>1, <3>2, <3>3 DEF LineLen
    <2>3. CASE q + 1 < Len(data) /\ data[q + 1] = "CR" /\ data[q + 2] = "LF" /\ next = q + 2
      <3>1. LineEnd(data, p) = q + 2
        <4>1. ASSUME NEW k \in p + 1..(q + 2) - 1 PROVE data[k] # "LF"
          <5>1. k \in p + 1..q \/ k = q + 1
            OBVIOUS
          <5> QED BY <2>3, <5>1 DEF Plain
        <4>2. q + 2 \in Nat /\ p < q + 2 /\ q + 2 <= Len(data) + 1
          BY <2>3
        <4> QED BY <2>3, <4>1, <4>2, LineEndIs
      <3>2. q + 2 > p + 1 /\ (q + 2) - 1 = q + 1 /\ (q + 2) - p - 2 = q - p /\ Smaller(q + 2, Len(data)) = q + 2
        BY <2>3, SmallerIs
      <3> QED BY <2>3, <3>1, <3>2 DEF LineLen
    <2> QED BY <2>1, <2>2, <2>3
  <1>2. q - p \in Nat /\ RecordMax \in Nat
    BY SizesAssumption
  <1>3. PICK n \in Nat : n = q - p
    BY <1>2
  <1>4. CASE n > RecordMax
    <2>1. ~split
      BY <1>2, <1>3, <1>4
    <2>2. (p + n) - p = n
      OBVIOUS
    <2> QED BY <1>1, <1>3, <1>4, <2>1, <2>2 DEF LineAt, LineRec, StatusSoFar
  <1>5. CASE ~(n > RecordMax)
    <2>1. Smaller(n, RecordMax) = n /\ p + n = q /\ (p + n) - p = n
      BY <1>2, <1>3, <1>5, SmallerIs
    <2>2. (\E k \in DOMAIN SubSeq(data, p + 1, p + n) : IsBadChar(SubSeq(data, p + 1, p + n)[k]))
            <=> \E k \in p + 1..p + n : IsBadChar(data[k])
      BY <2>1, BadIn
    <2> QED BY <1>1, <1>3, <1>5, <2>1, <2>2 DEF LineAt, LineRec, StatusSoFar
  <1> QED BY <1>4, <1>5

\* A line that goes on behind RecordMax cells, with COB_LS_SPLIT.
LEMMA LineCut ==
  ASSUME NEW data \in Seq(Cells), NEW p \in Nat, NEW q \in Nat, q = p + RecordMax, q < Len(data), Plain(data, p, q), split,
         data[q + 1] # "LF", data[q + 1] = "CR" => q + 1 = Len(data) \/ data[q + 2] # "LF"
  PROVE  LineAt(data, p) = [record |-> SubSeq(data, p + 1, q), pos |-> q, status |-> "06"]
  <1>1. RecordMax \in 1..9
    BY SizesAssumption
  <1>2. PICK S \in SUBSET Nat : S = {k \in p + 1..Len(data) : data[k] = "LF"} \cup {Len(data) + 1}
    <2>1. {k \in p + 1..Len(data) : data[k] = "LF"} \subseteq Nat
      BY <1>1
    <2>2. Len(data) + 1 \in Nat
      OBVIOUS
    <2> QED BY <2>1, <2>2
  <1>3. PICK e \in S : \A k \in S : e <= k
    BY <1>2, LeastOf
  <1>4. LineEnd(data, p) = e
    BY <1>2, <1>3, MinIs DEF LineEnd
  <1>5. e > q + 1
    <2> SUFFICES ASSUME e <= q + 1 PROVE FALSE
      BY <1>2
    <2>1. e \in p + 1..q \/ e = q + 1
      BY <1>1, <1>2
    <2>2. e <= Len(data)
      OBVIOUS
    <2>3. data[e] = "LF"
      BY <1>2, <2>2
    <2> QED BY <2>1, <2>3 DEF Plain
  <1>6. LineLen(data, p) \in Nat /\ LineLen(data, p) > RecordMax
    <2>1. e \in Nat /\ e - p - 1 > RecordMax
      BY <1>1, <1>5
    <2>2. CASE e <= Len(data) /\ e > p + 1 /\ data[e - 1] = "CR"
      <3>1. data[e] = "LF"
        BY <1>2, <2>2
      <3>2. e # q + 2
        <4> SUFFICES ASSUME e = q + 2 PROVE FALSE
          OBVIOUS
        <4>1. e - 1 = q + 1
          OBVIOUS
        <4> QED BY <2>2, <3>1, <4>1
      <3>3. e - p - 2 \in Nat /\ e - p - 2 > RecordMax
        BY <1>1, <1>5, <2>1, <3>2
      <3> QED BY <1>4, <2>2, <3>3 DEF LineLen
    <2>3. CASE ~(e <= Len(data) /\ e > p + 1 /\ data[e - 1] = "CR")
      <3>1. e - p - 1 \in Nat
        BY <1>1, <1>5, <2>1
      <3> QED BY <1>4, <2>1, <2>3, <3>1 DEF LineLen
    <2> QED BY <2>2, <2>3
  <1>7. Smaller(LineLen(data, p), RecordMax) = RecordMax
    BY <1>1, <1>6, SmallerIs
  <1> QED BY <1>6, <1>7 DEF LineAt

-----------------------------------------------------------------------------
(* The loop of lineseq_read. *)

LEMMA SoFarIs ==
  ASSUME NEW d \in Seq(Cells), NEW f \in Nat, NEW p \in Nat, NEW rec, NEW st, SoFar(d, f, p, rec, st)
  PROVE  /\ p - f \in Nat /\ Len(rec) = (IF p - f <= RecordMax THEN p - f ELSE RecordMax)
         /\ rec \in Seq(Cells) /\ \A k \in 1..Len(rec) : rec[k] = d[f + k]
  <1>1. RecordMax \in 1..9 /\ p - f \in Nat /\ p <= Len(d)
    BY SizesAssumption DEF SoFar
  <1>2. PICK m \in Nat : m = IF p - f <= RecordMax THEN p - f ELSE RecordMax
    <2>1. p - f \in Nat /\ RecordMax \in Nat
      BY <1>1
    <2> QED BY <2>1
  <1>3. Smaller(p - f, RecordMax) = m
    BY <1>1, <1>2, SmallerIs
  <1>4. PICK q \in Nat : q = f + m
    OBVIOUS
  <1>5. f <= q /\ q <= Len(d) /\ q - f = m
    BY <1>1, <1>2, <1>4
  <1>6. rec = SubSeq(d, f + 1, q)
    BY <1>3, <1>4 DEF SoFar
  <1>7. /\ SubSeq(d, f + 1, q) \in Seq(Cells) /\ Len(SubSeq(d, f + 1, q)) = q - f
        /\ \A k \in 1..q - f : SubSeq(d, f + 1, q)[k] = d[f + k]
    BY <1>5, SubSeqIs
  <1> QED BY <1>1, <1>2, <1>5, <1>6, <1>7

LEMMA SoFarZero ==
  ASSUME NEW d \in Seq(Cells), NEW f \in Nat, f <= Len(d)
  PROVE  SoFar(d, f, f, <<>>, "00")
  <1>1. RecordMax \in 1..9 /\ f - f = 0 /\ ~(0 > RecordMax)
    BY SizesAssumption
  <1>2. Smaller(0, RecordMax) = 0
    BY <1>1, SmallerIs
  <1>3. SubSeq(d, f + 1, f + 0) = <<>>
    <2>1. f + 0 = f
      OBVIOUS
    <2>2. SubSeq(d, f + 1, f) \in Seq(Cells) /\ Len(SubSeq(d, f + 1, f)) = 0
      BY SubSeqIs, <1>1
    <2> QED BY <2>1, <2>2
  <1>4. \A k \in f + 1..f : FALSE
    OBVIOUS
  <1> QED BY <1>1, <1>2, <1>3, <1>4 DEF SoFar, Plain, StatusSoFar

\* One more character is taken.
LEMMA TakeOne ==
  ASSUME NEW d \in Seq(Cells), NEW f \in Nat, NEW p \in Nat, NEW rec, NEW st, SoFar(d, f, p, rec, st),
         p < Len(d), d[p + 1] # "LF", ~(d[p + 1] = "CR" /\ p + 1 < Len(d) /\ d[p + 2] = "LF")
  PROVE  SoFar(d, f, p + 1, IF Len(rec) = RecordMax THEN rec ELSE Append(rec, d[p + 1]),
               IF Len(rec) = RecordMax THEN "04" ELSE IF IsBadChar(d[p + 1]) THEN "09" ELSE st)
  <1>1. RecordMax \in 1..9 /\ p - f \in Nat /\ f <= p
    BY SizesAssumption DEF SoFar
  <1>2. /\ Len(rec) = (IF p - f <= RecordMax THEN p - f ELSE RecordMax)
        /\ rec \in Seq(Cells) /\ \A k \in 1..Len(rec) : rec[k] = d[f + k]
    BY SoFarIs
  <1>3. Plain(d, f, p + 1)
    <2> SUFFICES ASSUME NEW k \in f + 1..p + 1
                 PROVE  d[k] # "LF" /\ ~(d[k] = "CR" /\ k < Len(d) /\ d[k + 1] = "LF")
      BY DEF Plain
    <2>1. CASE k \in f + 1..p
      BY <2>1 DEF SoFar, Plain
    <2>2. CASE k = p + 1
      <3>1. k + 1 = p + 2
        BY <2>2
      <3> QED BY <2>2, <3>1
    <2> QED BY <2>1, <2>2
  <1>4. PICK m \in Nat : m = IF (p + 1) - f <= RecordMax THEN (p + 1) - f ELSE RecordMax
    <2>1. (p + 1) - f \in Nat /\ RecordMax \in Nat
      BY <1>1
    <2> QED BY <2>1
  <1>5. Smaller((p + 1) - f, RecordMax) = m
    <2>1. (p + 1) - f \in Nat /\ RecordMax \in Nat
      BY <1>1
    <2> QED BY <1>4, <2>1, SmallerIs
  <1>6. PICK q \in Nat : q = f + m
    OBVIOUS
  <1>7. f <= q /\ q <= Len(d) /\ q - f = m
    BY <1>1, <1>4, <1>6
  <1>8. PICK s : s = SubSeq(d, f + 1, q) /\ s \in Seq(Cells) /\ Len(s) = m /\ \A k \in 1..m : s[k] = d[f + k]
    <2>1. /\ SubSeq(d, f + 1, q) \in Seq(Cells) /\ Len(SubSeq(d, f + 1, q)) = q - f
          /\ \A k \in 1..q - f : SubSeq(d, f + 1, q)[k] = d[f + k]
      BY <1>7, SubSeqIs
    <2> QED BY <1>7, <2>1
  <1>9. PICK t : t = IF Len(rec) = RecordMax THEN rec ELSE Append(rec, d[p + 1])
    OBVIOUS
  <1>10. t = s
    <2>1. CASE Len(rec) = RecordMax
      <3>1. m = Len(rec)
        BY <1>1, <1>2, <1>4, <2>1
      <3> QED BY <1>2, <1>8, <1>9, <2>1, <3>1, SameSeq
    <2>2. CASE Len(rec) # RecordMax
      <3>1. m = Len(rec) + 1 /\ Len(rec) = p - f
        BY <1>1, <1>2, <1>4, <2>2
      <3>2. d[p + 1] \in Cells
        OBVIOUS
      <3>3. t \in Seq(Cells) /\ Len(t) = m
        BY <1>2, <1>9, <2>2, <3>1, <3>2
      <3>4. ASSUME NEW k \in 1..m PROVE t[k] = s[k]
        <4>1. CASE k \in 1..Len(rec)
          BY <1>2, <1>8, <1>9, <2>2, <4>1
        <4>2. CASE k = Len(rec) + 1
          <5>1. f + k = p + 1
            BY <1>1, <3>1, <4>2
          <5> QED BY <1>2, <1>8, <1>9, <2>2, <4>2, <5>1
        <4> QED BY <1>2, <3>1, <4>1, <4>2
      <3> QED BY <1>8, <3>3, <3>4, SameSeq
    <2> QED BY <2>1, <2>2
  <1>11. (IF Len(rec) = RecordMax THEN "04" ELSE IF IsBadChar(d[p + 1]) THEN "09" ELSE st) = StatusSoFar(d, f, p + 1)
    <2>1. st = StatusSoFar(d, f, p)
      BY DEF SoFar
    <2>2. CASE Len(rec) = RecordMax
      <3>1. (p + 1) - f > RecordMax
        BY <1>1, <1>2, <2>2
      <3> QED BY <2>2, <3>1 DEF StatusSoFar
    <2>3. CASE Len(rec) # RecordMax
      <3>1. ~((p + 1) - f > RecordMax) /\ ~(p - f > RecordMax)
        BY <1>1, <1>2, <2>3
      <3>2. f + 1..p + 1 = (f + 1..p) \cup {p + 1}
        BY <1>1
      <3> QED BY <2>1, <2>3, <3>1, <3>2 DEF StatusSoFar
    <2> QED BY <2>2, <2>3
  <1>12. f <= p + 1 /\ p + 1 <= Len(d)
    BY <1>1
  <1> QED BY <1>3, <1>5, <1>6, <1>8, <1>9, <1>10, <1>11, <1>12 DEF SoFar

\* Where the look behind a character leaves the stream, in a file that has no CR at its end.
LEMMA AfterCharIs ==
  ASSUME Types, NEW p \in Nat, p < Len(bytes), bytes[p + 1] = "CR" => p + 1 < Len(bytes)
  PROVE  AfterChar(p) = p + 1 /\ At(p) = bytes[p + 1] /\ At(p) \in Cells
  <1>1. bytes \in Seq(Cells)
    BY DEF Types, FileTypes, bytes
  <1>2. PICK d \in Seq(Cells) : d = bytes
    BY <1>1
  <1>3. At(p) = d[p + 1] /\ d[p + 1] \in Cells
    BY <1>2 DEF At
  <1>4. CASE d[p + 1] = "CR"
    <2>1. Smaller(p + 1, Len(d)) = p + 1 /\ Smaller((p + 1) + 1, Len(d)) = p + 2
      BY <1>2, <1>4, SmallerIs
    <2>2. After(After(p)) - 1 = p + 1
      BY <1>2, <2>1 DEF After
    <2> QED BY <1>2, <1>3, <1>4, <2>2 DEF AfterChar
  <1>5. CASE d[p + 1] # "CR"
    BY <1>2, <1>3, <1>5 DEF AfterChar
  <1> QED BY <1>2, <1>3, <1>4, <1>5

\* READ has delivered the line at from.
Delivered(d) ==
  /\ LineAt(d, from) = [record |-> record', pos |-> pos', status |-> status']
  /\ status' \in Good /\ readDone' = TRUE /\ recSize' = Len(record') /\ pc' = "idle"
  /\ record' \in Seq(Cells) /\ Len(record') <= RecordMax /\ eof' = FALSE
  /\ from < pos' /\ pos' \in Nat /\ pos' <= Len(d) /\ \A k \in from + 1..pos' - 1 : d[k] # "LF"
  /\ LineStart(d, pos') \/ pos' = Len(d)
  /\ UNCHANGED <<org, split, files, cur, mode, needsNl, wrote, overprint, from, recOff>>

LEMMA GoodStatus == StatusSoFar(bytes, from, pos) \in {"00", "04", "09"}
  BY DEF StatusSoFar

LEMMA LineContext ==
  ASSUME Types, LineInv, pc = "getc"
  PROVE  /\ bytes \in Seq(Cells) /\ Ended(bytes) /\ Taking /\ org = "LINE" /\ Reading /\ cur \in 1..Len(files)
         /\ from \in Nat /\ pos \in Nat /\ RecordMax \in 1..9 /\ split \in BOOLEAN
         /\ record \in Seq(Cells) /\ Len(record) <= RecordMax
  <1>1. org = "LINE" /\ Reading
    BY DEF Types, Control
  <1>2. cur \in 1..Len(files) /\ bytes \in Seq(Cells)
    BY DEF Types, FileTypes, bytes
  <1>3. mode \notin WriteModes
    BY <1>1 DEF Reading, ReadModes, WriteModes
  <1>4. Ended(bytes) /\ Taking
    BY <1>1, <1>2, <1>3 DEF LineInv, bytes
  <1> QED BY <1>1, <1>2, <1>4, SizesAssumption DEF Types, FileTypes, PlaceTypes, RecordTypes

LEMMA ReadStatusIs ==
  ASSUME NEW s, ReadStatus(s)
  PROVE  /\ status' = s
         /\ s \in Good => readDone' = TRUE /\ eof' = FALSE
         /\ s \notin Good => readDone' = FALSE /\ (eof' = TRUE \/ eof' = eof)
  <1>1. status' = s /\ (readDone' = (s \in Good))
    BY DEF ReadStatus, Returns
  <1>2. CASE s \in Good
    <2>1. s # "10"
      BY <1>2 DEF Good
    <2>2. eof' = FALSE
      BY <1>2, <2>1 DEF ReadStatus
    <2> QED BY <1>1, <1>2, <2>2
  <1>3. CASE s \notin Good
    <2>1. eof' = TRUE \/ eof' = eof
      BY <1>3 DEF ReadStatus
    <2>2. (s \in Good) = FALSE
      BY <1>3
    <2>3. readDone' = FALSE
      BY <1>1, <2>2
    <2> QED BY <1>1, <1>3, <2>1, <2>3
  <1> QED BY <1>2, <1>3

\* READ ends behind the text from from to pos.
LEMMA BreakDelivers ==
  ASSUME Types, LineInv, pc = "getc", NEW q \in Nat, NEW rec, NEW st, NEW next \in Nat,
         SoFar(bytes, from, q, rec, st), split => q - from <= RecordMax, from < next, next <= Len(bytes),
         \/ q = Len(bytes) /\ next = q
         \/ q < Len(bytes) /\ bytes[q + 1] = "LF" /\ next = q + 1
         \/ q + 1 < Len(bytes) /\ bytes[q + 1] = "CR" /\ bytes[q + 2] = "LF" /\ next = q + 2,
         Getting, record' = rec, Break(next, st)
  PROVE  Delivered(bytes)
  <1>1. /\ bytes \in Seq(Cells) /\ Taking /\ from \in Nat /\ RecordMax \in 1..9
    BY LineContext
  <1>2. PICK d \in Seq(Cells) : d = bytes
    BY <1>1
  <1>3. from <= q /\ q <= Len(d) /\ Plain(d, from, q) /\ rec = SubSeq(d, from + 1, from + Smaller(q - from, RecordMax))
        /\ st = StatusSoFar(d, from, q)
    BY <1>2 DEF SoFar
  <1>4. LineAt(d, from) = LineRec(d, from, q - from, next)
    BY <1>1, <1>2, <1>3, LineDone
  <1>5. from + (q - from) = q
    BY <1>1, <1>3
  <1>6. st \in Good
    BY <1>3 DEF StatusSoFar, Good
  <1>7. /\ pc' = "idle" /\ pos' = next /\ recSize' = Len(record') /\ status' = st /\ readDone' = TRUE /\ eof' = FALSE
        /\ UNCHANGED <<org, split, files, cur, mode, needsNl, wrote, overprint, from, recOff>>
    <2>1. ReadStatus(st) /\ pc' = "idle" /\ pos' = next /\ recSize' = Len(record') /\ UNCHANGED <<cur, from, recOff>>
      BY DEF Break
    <2>2. status' = st /\ readDone' = TRUE /\ eof' = FALSE
      BY <1>6, <2>1, ReadStatusIs
    <2>3. UNCHANGED <<org, split, files, mode, needsNl, wrote, overprint>>
      BY DEF Getting, settings
    <2> QED BY <2>1, <2>2, <2>3
  <1>8. LineAt(d, from) = [record |-> record', pos |-> pos', status |-> status']
    BY <1>3, <1>4, <1>5, <1>7 DEF LineRec
  <1>9. rec \in Seq(Cells) /\ Len(rec) <= RecordMax
    BY <1>1, <1>2, SoFarIs
  <1>10. \A k \in from + 1..next - 1 : d[k] # "LF"
    <2> SUFFICES ASSUME NEW k \in from + 1..next - 1 PROVE d[k] # "LF"
      OBVIOUS
    <2>1. k \in from + 1..q \/ (k = q + 1 /\ d[q + 1] = "CR")
      BY <1>1, <1>2, <1>3
    <2> QED BY <1>3, <2>1 DEF Plain
  <1>11. LineStart(d, next) \/ next = Len(d)
    BY <1>2 DEF LineStart
  <1> QED BY <1>2, <1>6, <1>7, <1>8, <1>9, <1>10, <1>11 DEF Delivered

LEMMA LineEndDelivers ==
  ASSUME Types, LineInv, GetLineEnd
  PROVE  Delivered(bytes)
  <1>1. pc = "getc" /\ Getting /\ record' = record
    BY DEF GetLineEnd, Getting
  <1>2. /\ bytes \in Seq(Cells) /\ Taking /\ from \in Nat /\ pos \in Nat /\ RecordMax \in 1..9
    BY <1>1, LineContext
  <1>3. SoFar(bytes, from, pos, record, status) /\ (split => pos - from < RecordMax) /\ from <= pos
    BY <1>2 DEF Taking, SoFar
  <1>4. PICK d \in Seq(Cells) : d = bytes
    BY <1>2
  <1>5. "LF" # EOF /\ "CR" # EOF
    BY DEF EOF
  <1>6. split => pos - from <= RecordMax
    BY <1>2, <1>3
  <1>7. CASE At(pos) = "LF" /\ Break(pos + 1, status)
    <2>1. pos < Len(d) /\ d[pos + 1] = "LF"
      BY <1>4, <1>5, <1>7 DEF At
    <2>2. pos + 1 \in Nat /\ from < pos + 1 /\ pos + 1 <= Len(d)
      BY <1>2, <1>3, <2>1
    <2> QED BY <1>1, <1>2, <1>3, <1>4, <1>6, <1>7, <2>1, <2>2, BreakDelivers
  <1>8. CASE At(pos) = "CR" /\ At(pos + 1) = "LF" /\ Break(pos + 2, status)
    <2>1. pos + 1 < Len(d) /\ d[pos + 1] = "CR" /\ d[(pos + 1) + 1] = "LF"
      BY <1>4, <1>5, <1>8, <1>2 DEF At
    <2>2. pos + 2 \in Nat /\ from < pos + 2 /\ pos + 2 <= Len(d) /\ (pos + 1) + 1 = pos + 2
      BY <1>2, <1>3, <2>1
    <2> QED BY <1>1, <1>2, <1>3, <1>4, <1>6, <1>8, <2>1, <2>2, BreakDelivers
  <1> QED BY <1>7, <1>8 DEF GetLineEnd

LEMMA EofDelivers ==
  ASSUME Types, LineInv, GetEof, record # <<>>
  PROVE  Delivered(bytes)
  <1>1. pc = "getc" /\ Getting /\ record' = record /\ At(pos) = EOF /\ Break(pos, status)
    BY DEF GetEof, Getting
  <1>2. /\ bytes \in Seq(Cells) /\ Taking /\ from \in Nat /\ pos \in Nat /\ RecordMax \in 1..9
    BY <1>1, LineContext
  <1>3. SoFar(bytes, from, pos, record, status) /\ (split => pos - from < RecordMax) /\ from <= pos /\ pos <= Len(bytes)
    BY <1>2 DEF Taking, SoFar
  <1>4. PICK d \in Seq(Cells) : d = bytes
    BY <1>2
  <1>5. pos = Len(d)
    <2> SUFFICES ASSUME pos < Len(d) PROVE FALSE
      BY <1>2, <1>3, <1>4
    <2>1. At(pos) \in Cells
      BY <1>2, <1>4 DEF At
    <2> QED BY <1>1, <2>1, DigitsIs DEF EOF
  <1>6. from < pos
    <2>1. Len(record) = (IF pos - from <= RecordMax THEN pos - from ELSE RecordMax) /\ record \in Seq(Cells)
      BY <1>2, <1>3, SoFarIs
    <2>2. Len(record) # 0
      BY <2>1
    <2> QED BY <1>2, <1>3, <2>1, <2>2
  <1>7. split => pos - from <= RecordMax
    BY <1>2, <1>3
  <1> QED BY <1>1, <1>2, <1>3, <1>4, <1>5, <1>6, <1>7, BreakDelivers

\* What one more character makes of the record and its status.
CharRecord == IF Full THEN record ELSE Append(record, At(pos))
CharStatus == IF Full THEN "04" ELSE Validated(At(pos))

LEMMA CharContext ==
  ASSUME Types, LineInv, GetChar
  PROVE  /\ pc = "getc" /\ Getting /\ pos < Len(bytes) /\ AfterChar(pos) = pos + 1
         /\ record' = CharRecord /\ record' \in Seq(Cells) /\ Len(record') <= RecordMax
         /\ SoFar(bytes, from, pos + 1, CharRecord, CharStatus)
         /\ Len(record) = (IF pos - from <= RecordMax THEN pos - from ELSE RecordMax)
         /\ (split => pos - from < RecordMax) /\ from <= pos
  <1>1. pc = "getc" /\ Getting
    BY DEF GetChar, Getting
  <1>2. /\ bytes \in Seq(Cells) /\ Ended(bytes) /\ Taking /\ from \in Nat /\ pos \in Nat /\ RecordMax \in 1..9
    BY <1>1, LineContext
  <1>3. SoFar(bytes, from, pos, record, status) /\ from <= pos /\ pos <= Len(bytes) /\ (split => pos - from < RecordMax)
    BY <1>2 DEF Taking, SoFar
  <1>4. PICK d \in Seq(Cells) : d = bytes
    BY <1>2
  <1>5. At(pos) \notin {EOF, "LF"} /\ ~(At(pos) = "CR" /\ At(pos + 1) = "LF")
    BY DEF GetChar
  <1>6. pos < Len(d)
    BY <1>2, <1>3, <1>4, <1>5 DEF At
  <1>7. d[pos + 1] = "CR" => pos + 1 < Len(d)
    <2> SUFFICES ASSUME pos + 1 = Len(d), d[pos + 1] = "CR" PROVE FALSE
      BY <1>2, <1>6
    <2>1. d # <<>>
      BY <1>2, <1>6
    <2> QED BY <1>2, <1>4, <2>1 DEF Ended
  <1>8. AfterChar(pos) = pos + 1 /\ At(pos) = d[pos + 1] /\ At(pos) \in Cells
    BY <1>2, <1>4, <1>6, <1>7, AfterCharIs
  <1>9. ~(d[pos + 1] = "CR" /\ pos + 1 < Len(d) /\ d[pos + 2] = "LF")
    <2> SUFFICES ASSUME d[pos + 1] = "CR", pos + 1 < Len(d), d[pos + 2] = "LF" PROVE FALSE
      OBVIOUS
    <2>1. (pos + 1) + 1 = pos + 2
      BY <1>2
    <2>2. At(pos + 1) = "LF"
      BY <1>4, <2>1 DEF At
    <2> QED BY <1>5, <1>8, <2>2
  <1>10. SoFar(d, from, pos + 1, IF Len(record) = RecordMax THEN record ELSE Append(record, d[pos + 1]),
               IF Len(record) = RecordMax THEN "04" ELSE IF IsBadChar(d[pos + 1]) THEN "09" ELSE status)
    BY <1>2, <1>3, <1>4, <1>5, <1>6, <1>8, <1>9, TakeOne
  <1>11. SoFar(d, from, pos + 1, CharRecord, CharStatus)
    BY <1>8, <1>10 DEF CharRecord, CharStatus, Full, Validated
  <1>12. record' = CharRecord
    BY DEF GetChar, Taken, CharRecord
  <1>13. CharRecord \in Seq(Cells) /\ Len(CharRecord) <= RecordMax
    <2>1. pos + 1 \in Nat
      BY <1>2
    <2> QED BY <1>2, <1>11, <2>1, SoFarIs
  <1>14. Len(record) = (IF pos - from <= RecordMax THEN pos - from ELSE RecordMax)
    BY <1>2, <1>3, SoFarIs
  <1> QED BY <1>1, <1>3, <1>4, <1>6, <1>8, <1>11, <1>12, <1>13, <1>14

\* fseek () over k characters back.
PlaceAhead(behind, k) == IF behind >= k THEN behind - k ELSE behind

LEMMA CharDelivers ==
  ASSUME Types, LineInv, GetChar, Len(record) + 1 = RecordMax, split
  PROVE  Delivered(bytes)
  <1>1. /\ pc = "getc" /\ Getting /\ pos < Len(bytes) /\ AfterChar(pos) = pos + 1
        /\ record' = CharRecord /\ record' \in Seq(Cells) /\ Len(record') <= RecordMax
        /\ SoFar(bytes, from, pos + 1, CharRecord, CharStatus)
        /\ Len(record) = (IF pos - from <= RecordMax THEN pos - from ELSE RecordMax)
        /\ (split => pos - from < RecordMax) /\ from <= pos
    BY CharContext
  <1>2. /\ bytes \in Seq(Cells) /\ Ended(bytes) /\ Taking /\ from \in Nat /\ pos \in Nat /\ RecordMax \in 1..9
    BY <1>1, LineContext
  <1>3. PICK d \in Seq(Cells) : d = bytes
    BY <1>2
  <1>4. PICK q \in Nat : q = pos + 1
    BY <1>2
  <1>5. from <= pos /\ pos - from + 1 = RecordMax /\ q = from + RecordMax /\ q - from = RecordMax /\ q <= Len(d) /\ from < q
    BY <1>1, <1>2, <1>3, <1>4
  <1>6. Plain(d, from, q)
    BY <1>1, <1>3, <1>4 DEF SoFar
  <1>7. Break(Ahead(q).pos, IF Ahead(q).more THEN "06" ELSE Validated(At(pos)))
    BY <1>1, <1>4 DEF GetChar
  <1>8. ~Full /\ CharStatus = Validated(At(pos))
    <2>1. Len(record) # RecordMax
      BY <1>1, <1>2
    <2> QED BY <2>1 DEF Full, CharStatus
  <1>9. q < Len(d)
    <2> SUFFICES ASSUME q = Len(d) PROVE FALSE
      BY <1>2, <1>3, <1>5
    <2>1. d # <<>> /\ ~(Len(d) < RecordMax)
      <3>1. RecordMax \in Int /\ RecordMax > 0 /\ from \in Int /\ from >= 0 /\ Len(d) = from + RecordMax
        BY <1>2, <1>5
      <3>2. Len(d) > 0 /\ ~(Len(d) < RecordMax)
        BY <3>1
      <3> QED BY <3>2
    <2>2. PICK k \in 0..RecordMax - 1 : d[Len(d) - k] = "LF"
      BY <1>3, <1>2, <2>1 DEF Ended
    <2>3. Len(d) - k \in from + 1..q
      <3>1. k \in Int /\ 0 <= k /\ k <= RecordMax - 1 /\ RecordMax \in Int /\ from \in Int /\ q = from + RecordMax
        BY <1>2, <1>5
      <3>2. q - k >= from + 1 /\ q - k <= q /\ q - k \in Int
        BY <3>1
      <3> QED BY <3>1, <3>2
    <2> QED BY <1>6, <2>2, <2>3 DEF Plain
  <1>10. d[q + 1] = "CR" => q + 1 < Len(d)
    <2> SUFFICES ASSUME q + 1 = Len(d), d[q + 1] = "CR" PROVE FALSE
      BY <1>9
    <2>1. d # <<>>
      BY <1>9
    <2> QED BY <1>2, <1>3, <2>1 DEF Ended
  <1>11. At(q) = d[q + 1] /\ After(q) = q + 1
    <2>1. Smaller(q + 1, Len(d)) = q + 1
      BY <1>9, SmallerIs
    <2> QED BY <1>3, <1>9, <2>1 DEF At, After
  <1>12. SoFar(d, from, q, CharRecord, CharStatus) /\ (split => q - from <= RecordMax)
    BY <1>1, <1>2, <1>3, <1>4, <1>5
  <1>13. CASE d[q + 1] = "LF"
    <2>1. Ahead(q) = [pos |-> q + 1, more |-> FALSE]
      BY <1>11, <1>13 DEF Ahead
    <2>2. Break(q + 1, CharStatus)
      BY <1>7, <1>8, <2>1
    <2>3. q + 1 \in Nat /\ from < q + 1 /\ q + 1 <= Len(d)
      BY <1>2, <1>5, <1>9
    <2> QED BY <1>1, <1>3, <1>9, <1>12, <1>13, <2>2, <2>3, BreakDelivers
  <1>14. CASE d[q + 1] = "CR" /\ d[q + 2] = "LF"
    <2>1. q + 1 < Len(d) /\ (q + 1) + 1 = q + 2
      BY <1>10, <1>14
    <2>2. Smaller(q + 2, Len(d)) = q + 2
      BY <2>1, SmallerIs
    <2>3. At(q + 1) = "LF" /\ After(After(q)) = q + 2
      BY <1>3, <1>11, <1>14, <2>1, <2>2 DEF At, After
    <2>4. Ahead(q) = [pos |-> q + 2, more |-> FALSE]
      BY <1>11, <1>14, <2>3 DEF Ahead
    <2>5. Break(q + 2, CharStatus)
      BY <1>7, <1>8, <2>4
    <2>6. q + 2 \in Nat /\ from < q + 2 /\ q + 2 <= Len(d)
      BY <1>2, <1>5, <2>1
    <2> QED BY <1>1, <1>3, <1>12, <1>14, <2>1, <2>5, <2>6, BreakDelivers
  <1>15. CASE d[q + 1] # "LF" /\ ~(d[q + 1] = "CR" /\ d[q + 2] = "LF")
    <2>1. Ahead(q) = [pos |-> q, more |-> TRUE]
      <3>1. CASE d[q + 1] = "CR"
        <4>1. q + 1 < Len(d) /\ (q + 1) + 1 = q + 2 /\ q + 2 >= 2 /\ (q + 2) - 2 = q
          BY <1>10, <3>1
        <4>2. Smaller(q + 2, Len(d)) = q + 2
          BY <4>1, SmallerIs
        <4>3. At(q + 1) # "LF" /\ After(After(q)) = q + 2
          BY <1>3, <1>11, <1>15, <3>1, <4>1, <4>2 DEF At, After
        <4>4. At(q) = "CR" /\ PlaceAhead(q + 2, 2) = q
          BY <1>11, <3>1, <4>1 DEF PlaceAhead
        <4>5. Ahead(q) = [pos |-> PlaceAhead(After(After(q)), 2), more |-> TRUE]
          BY <4>3, <4>4 DEF Ahead, PlaceAhead
        <4> QED BY <4>3, <4>4, <4>5
      <3>2. CASE d[q + 1] # "CR"
        <4>1. q + 1 >= 1 /\ (q + 1) - 1 = q
          OBVIOUS
        <4> QED BY <1>11, <1>15, <3>2, <4>1 DEF Ahead
      <3> QED BY <3>1, <3>2
    <2>2. Break(q, "06")
      BY <1>7, <2>1
    <2>3. LineAt(d, from) = [record |-> SubSeq(d, from + 1, q), pos |-> q, status |-> "06"]
      BY <1>2, <1>5, <1>6, <1>9, <1>15, LineCut
    <2>4. CharRecord = SubSeq(d, from + 1, q)
      <3>1. Smaller(q - from, RecordMax) = RecordMax
        BY <1>2, <1>5, SmallerIs
      <3> QED BY <1>5, <1>12, <3>1 DEF SoFar
    <2>5. ReadStatus("06") /\ pc' = "idle" /\ pos' = q /\ recSize' = Len(record') /\ UNCHANGED <<cur, from, recOff>>
      BY <2>2 DEF Break
    <2>6. status' = "06" /\ "06" \in Good /\ readDone' = TRUE /\ eof' = FALSE
      <3>1. "06" \in Good
        BY DEF Good
      <3> QED BY <2>5, <3>1, ReadStatusIs
    <2>7. UNCHANGED <<org, split, files, mode, needsNl, wrote, overprint>>
      BY <1>1 DEF Getting, settings
    <2>8. LineStart(d, q)
      <3>1. RecordMax <= q /\ q - RecordMax = from
        BY <1>2, <1>5
      <3>2. ASSUME NEW k \in from + 1..q + 1 PROVE d[k] # "LF" /\ ~(d[k] = "CR" /\ k < Len(d) /\ d[k + 1] = "LF")
        <4>1. CASE k \in from + 1..q
          BY <1>6, <4>1 DEF Plain
        <4>2. CASE k = q + 1
          <5>1. k + 1 = q + 2
            BY <4>2
          <5> QED BY <1>15, <4>2, <5>1
        <4> QED BY <1>2, <4>1, <4>2
      <3>3. Plain(d, from, q + 1)
        BY <3>2 DEF Plain
      <3> QED BY <1>9, <3>1, <3>3 DEF LineStart
    <2>9. \A k \in from + 1..q - 1 : d[k] # "LF"
      BY <1>6 DEF Plain
    <2>10. LineAt(d, from) = [record |-> record', pos |-> pos', status |-> status']
      BY <1>1, <2>3, <2>4, <2>5, <2>6
    <2> QED BY <1>1, <1>3, <1>5, <1>9, <2>5, <2>6, <2>7, <2>8, <2>9, <2>10 DEF Delivered
  <1> QED BY <1>13, <1>14, <1>15

LEMMA CharTakes ==
  ASSUME Types, LineInv, GetChar, ~(Len(record) + 1 = RecordMax /\ split)
  PROVE  /\ SoFar(bytes, from, pos', record', status') /\ (split => pos' - from < RecordMax)
         /\ pos' = pos + 1 /\ status' \in Good /\ record' \in Seq(Cells) /\ Len(record') <= RecordMax
         /\ UNCHANGED <<org, split, files, cur, mode, pc, needsNl, wrote, overprint, from, recOff, recSize, readDone, eof>>
  <1>1. /\ pc = "getc" /\ Getting /\ pos < Len(bytes) /\ AfterChar(pos) = pos + 1
        /\ record' = CharRecord /\ record' \in Seq(Cells) /\ Len(record') <= RecordMax
        /\ SoFar(bytes, from, pos + 1, CharRecord, CharStatus)
        /\ Len(record) = (IF pos - from <= RecordMax THEN pos - from ELSE RecordMax)
        /\ (split => pos - from < RecordMax) /\ from <= pos
    BY CharContext
  <1>2. /\ bytes \in Seq(Cells) /\ from \in Nat /\ pos \in Nat /\ RecordMax \in 1..9
    BY <1>1, LineContext
  <1>3. pos' = pos + 1 /\ status' = CharStatus /\ UNCHANGED <<cur, pc, recSize, recOff, readDone, eof, from>>
    BY <1>1 DEF GetChar, Returns, CharStatus, flags
  <1>4. UNCHANGED <<org, split, files, mode, needsNl, wrote, overprint>>
    BY <1>1 DEF Getting, settings
  <1>5. split => pos' - from < RecordMax
    BY <1>1, <1>2, <1>3
  <1>6. status' \in Good
    <2>1. CharStatus = StatusSoFar(bytes, from, pos + 1)
      BY <1>1 DEF SoFar
    <2> QED BY <1>3, <2>1 DEF StatusSoFar, Good
  <1> QED BY <1>1, <1>3, <1>4, <1>5, <1>6

-----------------------------------------------------------------------------
(* The chain of records of a variable-length file. *)

LEMMA CountingUp ==
  ASSUME NEW n \in Nat, NEW T, 0 \in T, \A k \in 0..(n - 1) : k \in T => k + 1 \in T
  PROVE  \A k \in 0..n : k \in T
  <1> SUFFICES ASSUME NEW k \in 0..n, k \notin T PROVE FALSE
    OBVIOUS
  <1>1. PICK M : M = {i \in 0..n : i \notin T}
    OBVIOUS
  <1>2. M \in SUBSET Nat /\ M # {}
    BY <1>1
  <1>3. PICK i \in M : \A j \in M : i <= j
    BY <1>2, LeastOf
  <1>4. i \in 0..n /\ i \notin T /\ i # 0
    BY <1>1, <1>3
  <1>5. i - 1 \in 0..(n - 1) /\ i - 1 \in 0..n /\ ~(i <= i - 1) /\ (i - 1) + 1 = i
    BY <1>4
  <1>6. i - 1 \in T
    BY <1>1, <1>3, <1>5
  <1>7. (i - 1) + 1 \in T
    BY <1>5, <1>6
  <1> QED BY <1>4, <1>5, <1>7

\* The starts up to p, from those before it.
Follows(d, S, p) == {k \in {p} : \E q \in S : HasRecord(d, q) /\ Behind(d, q) = k}
StartRun(d, n, f) == f = [p \in 0..n |-> IF p = 0 THEN {0} ELSE f[p - 1] \cup Follows(d, f[p - 1], p)]

LEMMA StartRunIs ==
  ASSUME NEW d, NEW n \in Nat, NEW f, StartRun(d, n, f)
  PROVE  f[0] = {0} /\ \A p \in 1..n : f[p] = f[p - 1] \cup Follows(d, f[p - 1], p)
  <1>1. f[0] = {0}
    BY DEF StartRun
  <1>2. ASSUME NEW p \in 1..n PROVE f[p] = f[p - 1] \cup Follows(d, f[p - 1], p)
    <2>1. p \in 0..n /\ p # 0
      OBVIOUS
    <2> QED BY <2>1 DEF StartRun
  <1> QED BY <1>1, <1>2

LEMMA StartRuns ==
  ASSUME NEW d, NEW n \in Nat
  PROVE  \E f : StartRun(d, n, f)
  <1>1. PICK T : T = {m \in 0..n : \E f : StartRun(d, m, f)}
    OBVIOUS
  <1>2. 0 \in T
    <2>1. PICK f : f = [p \in 0..0 |-> {0}]
      OBVIOUS
    <2>2. StartRun(d, 0, f)
      BY <2>1 DEF StartRun
    <2> QED BY <1>1, <2>2
  <1>3. ASSUME NEW i \in 0..(n - 1), i \in T PROVE i + 1 \in T
    <2>1. PICK f : StartRun(d, i, f)
      BY <1>1, <1>3
    <2>2. PICK e : e = f[i] \cup Follows(d, f[i], i + 1)
      OBVIOUS
    <2>3. PICK g : g = [p \in 0..(i + 1) |-> IF p = i + 1 THEN e ELSE f[p]]
      OBVIOUS
    <2>4. \A p \in 0..(i + 1) : g[p] = IF p = 0 THEN {0} ELSE g[p - 1] \cup Follows(d, g[p - 1], p)
      <3> SUFFICES ASSUME NEW p \in 0..(i + 1)
                   PROVE  g[p] = IF p = 0 THEN {0} ELSE g[p - 1] \cup Follows(d, g[p - 1], p)
        OBVIOUS
      <3>1. CASE p = 0
        <4>1. g[p] = f[0]
          BY <2>3, <3>1
        <4> QED BY <2>1, <3>1, <4>1, StartRunIs
      <3>2. CASE p = i + 1
        <4>1. g[p] = e /\ g[p - 1] = f[i] /\ p # 0
          BY <2>3, <3>2
        <4> QED BY <2>2, <3>2, <4>1
      <3>3. CASE p \in 1..i
        <4>1. g[p] = f[p] /\ g[p - 1] = f[p - 1] /\ p # 0
          BY <2>3, <3>3
        <4>2. f[p] = f[p - 1] \cup Follows(d, f[p - 1], p)
          <5>1. i \in Nat
            OBVIOUS
          <5>2. \A r \in 1..i : f[r] = f[r - 1] \cup Follows(d, f[r - 1], r)
            BY <2>1, <5>1, StartRunIs
          <5> QED BY <3>3, <5>2
        <4> QED BY <4>1, <4>2
      <3> QED BY <3>1, <3>2, <3>3
    <2>5. g = [p \in 0..(i + 1) |-> g[p]]
      BY <2>3
    <2>6. StartRun(d, i + 1, g)
      BY <2>4, <2>5 DEF StartRun
    <2> QED BY <1>1, <2>6
  <1>4. \A p \in 0..n : p \in T
    BY <1>2, <1>3, CountingUp
  <1>5. n \in T
    BY <1>4
  <1> QED BY <1>1, <1>5

\* S are the starts of d.
StartsAre(d, S) ==
  /\ 0 \in S /\ S \subseteq 0..Len(d)
  /\ \A q \in S : HasRecord(d, q) /\ Behind(d, q) <= Len(d) => Behind(d, q) \in S
  /\ \A p \in S : p = 0 \/ \E q \in S : q < p /\ HasRecord(d, q) /\ Behind(d, q) = p

LEMMA BehindIs ==
  ASSUME NEW d, NEW q \in Nat, HasRecord(d, q)
  PROVE  Behind(d, q) \in Nat /\ q < Behind(d, q) /\ LengthIn(d[q + 1]) \in 0..9
  <1>1. LengthIn(d[q + 1]) \in 0..9
    BY DigitsIs DEF HasRecord
  <1> QED BY <1>1 DEF Behind

LEMMA StartsIs ==
  ASSUME NEW d \in Seq(Cells), org # "LINE"
  PROVE  StartsAre(d, Starts(d))
  <1>1. PICK n \in Nat : n = Len(d)
    OBVIOUS
  <1>2. \E f : StartRun(d, Len(d), f)
    BY <1>1, StartRuns
  <1>3. PICK f : StartRun(d, n, f) /\ Starts(d) = f[n]
    <2>1. Starts(d) = (CHOOSE f : StartRun(d, Len(d), f))[Len(d)]
      BY DEF StartRun, Follows, Starts
    <2>2. StartRun(d, Len(d), CHOOSE f : StartRun(d, Len(d), f))
      BY <1>2
    <2> QED BY <1>1, <2>1, <2>2
  <1>4. f[0] = {0} /\ \A p \in 1..n : f[p] = f[p - 1] \cup Follows(d, f[p - 1], p)
    BY <1>3, StartRunIs
  \* f[p] is f[n] up to p.
  <1>5. PICK T : T = {p \in 0..n : /\ 0 \in f[p] /\ f[p] \subseteq 0..p
                                   /\ \A q \in f[p] : HasRecord(d, q) /\ Behind(d, q) <= p => Behind(d, q) \in f[p]
                                   /\ \A k \in f[p] : k = 0 \/ \E q \in f[p] : q < k /\ HasRecord(d, q) /\ Behind(d, q) = k}
    OBVIOUS
  <1>6. 0 \in T
    <2>1. \A q \in f[0] : ~(HasRecord(d, q) /\ Behind(d, q) <= 0)
      BY <1>4, BehindIs
    <2> QED BY <1>4, <1>5, <2>1
  <1>7. ASSUME NEW i \in 0..(n - 1), i \in T PROVE i + 1 \in T
    <2>1. /\ 0 \in f[i] /\ f[i] \subseteq 0..i
          /\ \A q \in f[i] : HasRecord(d, q) /\ Behind(d, q) <= i => Behind(d, q) \in f[i]
          /\ \A k \in f[i] : k = 0 \/ \E q \in f[i] : q < k /\ HasRecord(d, q) /\ Behind(d, q) = k
      BY <1>5, <1>7
    <2>2. i + 1 \in 1..n /\ (i + 1) - 1 = i /\ i + 1 \in 0..n
      OBVIOUS
    <2>3. f[i + 1] = f[i] \cup Follows(d, f[i], i + 1)
      BY <1>4, <2>2
    <2>4. \A k : k \in Follows(d, f[i], i + 1) <=> k = i + 1 /\ \E q \in f[i] : HasRecord(d, q) /\ Behind(d, q) = k
      BY DEF Follows
    <2>5. 0 \in f[i + 1] /\ f[i + 1] \subseteq 0..(i + 1)
      BY <2>1, <2>3, <2>4
    <2>6. ASSUME NEW q \in f[i + 1], HasRecord(d, q), Behind(d, q) <= i + 1
          PROVE  Behind(d, q) \in f[i + 1]
      <3>1. q \in Nat /\ Behind(d, q) \in Nat /\ q < Behind(d, q)
        BY <2>5, <2>6, BehindIs
      <3>2. q \in f[i]
        BY <2>3, <2>4, <2>6, <3>1
      <3>3. CASE Behind(d, q) <= i
        BY <2>1, <2>3, <2>6, <3>2, <3>3
      <3>4. CASE Behind(d, q) = i + 1
        BY <2>3, <2>4, <2>6, <3>2, <3>4
      <3> QED BY <2>6, <3>1, <3>3, <3>4
    <2>7. ASSUME NEW k \in f[i + 1], k # 0
          PROVE  \E q \in f[i + 1] : q < k /\ HasRecord(d, q) /\ Behind(d, q) = k
      <3>1. CASE k \in f[i]
        BY <2>1, <2>3, <2>7, <3>1
      <3>2. CASE k = i + 1 /\ \E q \in f[i] : HasRecord(d, q) /\ Behind(d, q) = k
        <4>1. PICK q \in f[i] : HasRecord(d, q) /\ Behind(d, q) = k
          BY <3>2
        <4>2. q < k
          BY <2>1, <3>2, <4>1
        <4> QED BY <2>3, <4>1, <4>2
      <3> QED BY <2>3, <2>4, <3>1, <3>2
    <2> QED BY <1>5, <2>2, <2>5, <2>6, <2>7
  <1>8. \A p \in 0..n : p \in T
    BY <1>6, <1>7, CountingUp
  <1>9. n \in T
    BY <1>8
  <1> QED BY <1>1, <1>3, <1>5, <1>9 DEF StartsAre

\* What starts after another start is behind its record.
LEMMA NoneBetween ==
  ASSUME NEW d \in Seq(Cells), org # "LINE", NEW s \in Starts(d), NEW t \in Starts(d), s < t
  PROVE  HasRecord(d, s) /\ Behind(d, s) <= t
  <1>1. StartsAre(d, Starts(d))
    BY StartsIs
  <1>2. PICK S : S = Starts(d)
    OBVIOUS
  <1>3. S \subseteq Nat
    BY <1>1, <1>2 DEF StartsAre
  <1>4. PICK M \in SUBSET Nat : M = {u \in S : \E r \in S : r < u /\ ~(HasRecord(d, r) /\ Behind(d, r) <= u)}
    BY <1>3
  <1> SUFFICES ASSUME t \in M PROVE FALSE
    BY <1>2, <1>4
  <1>5. PICK u \in M : \A v \in M : u <= v
    BY LeastOf
  <1>6. PICK r \in S : r < u /\ ~(HasRecord(d, r) /\ Behind(d, r) <= u)
    BY <1>4, <1>5
  <1>7. u \in S /\ u # 0
    BY <1>3, <1>4, <1>6
  <1>8. PICK q \in S : q < u /\ HasRecord(d, q) /\ Behind(d, q) = u
    BY <1>1, <1>2, <1>7 DEF StartsAre
  <1>9. q \in Nat /\ r \in Nat /\ u \in Nat
    BY <1>3, <1>6, <1>7, <1>8
  <1>10. CASE q = r
    BY <1>6, <1>8, <1>9, <1>10
  <1>11. CASE r < q
    <2>1. ~(q \in M)
      BY <1>5, <1>8, <1>9
    <2>2. HasRecord(d, r) /\ Behind(d, r) <= q
      BY <1>4, <1>6, <1>8, <1>11, <2>1
    <2>3. Behind(d, r) \in Nat
      BY <1>9, <2>2, BehindIs
    <2> QED BY <1>6, <1>8, <1>9, <2>2, <2>3
  <1>12. CASE q < r
    <2>1. ~(r \in M)
      BY <1>5, <1>6, <1>9
    <2>2. HasRecord(d, q) /\ Behind(d, q) <= r
      BY <1>4, <1>6, <1>8, <1>12, <2>1
    <2> QED BY <1>6, <1>8, <1>9, <2>2
  <1> QED BY <1>9, <1>10, <1>11, <1>12

\* In a file that is made of records, each start has one.
LEMMA SoundStarts ==
  ASSUME NEW d \in Seq(Cells), org = "VARIABLE", Sound(d), NEW s \in Starts(d), s < Len(d)
  PROVE  HasRecord(d, s) /\ Behind(d, s) <= Len(d)
  BY NoneBetween DEF Sound

\* The starts of a file depend on the lengths at the starts only.
LEMMA StartsKept ==
  ASSUME NEW d \in Seq(Cells), NEW e \in Seq(Cells), org # "LINE", Len(d) <= Len(e),
         \A s \in Starts(d) : s < Len(d) => d[s + 1] = e[s + 1]
  PROVE  \A p \in 0..Len(d) : p \in Starts(d) <=> p \in Starts(e)
  <1>1. StartsAre(d, Starts(d)) /\ StartsAre(e, Starts(e))
    BY StartsIs
  <1>2. PICK S, U : S = Starts(d) /\ U = Starts(e)
    OBVIOUS
  <1>3. PICK M \in SUBSET Nat : M = {p \in 0..Len(d) : ~(p \in S <=> p \in U)}
    <2>1. {p \in 0..Len(d) : ~(p \in S <=> p \in U)} \subseteq Nat
      OBVIOUS
    <2> QED BY <2>1
  <1> SUFFICES ASSUME M # {} PROVE FALSE
    BY <1>2, <1>3
  <1>4. PICK p \in M : \A v \in M : p <= v
    BY LeastOf
  <1>5. p \in 0..Len(d) /\ ~(p \in S <=> p \in U)
    BY <1>3, <1>4
  <1>6. \A q \in 0..Len(d) : q < p => (q \in S <=> q \in U)
    <2> SUFFICES ASSUME NEW q \in 0..Len(d), q < p, ~(q \in S <=> q \in U) PROVE FALSE
      OBVIOUS
    <2>1. q \in M
      BY <1>3
    <2> QED BY <1>4, <1>5, <2>1
  <1>7. p # 0
    BY <1>1, <1>2, <1>5 DEF StartsAre
  <1>8. \A q \in S : q < Len(d) => (HasRecord(d, q) <=> HasRecord(e, q)) /\ Behind(d, q) = Behind(e, q)
    <2> SUFFICES ASSUME NEW q \in S, q < Len(d)
                 PROVE  (HasRecord(d, q) <=> HasRecord(e, q)) /\ Behind(d, q) = Behind(e, q)
      OBVIOUS
    <2>1. d[q + 1] = e[q + 1]
      BY <1>2
    <2>2. q < Len(e)
      BY <1>1, <1>2 DEF StartsAre
    <2> QED BY <2>1, <2>2 DEF HasRecord, Behind
  <1>9. CASE p \in S
    <2>1. PICK q \in S : q < p /\ HasRecord(d, q) /\ Behind(d, q) = p
      BY <1>1, <1>2, <1>7, <1>9 DEF StartsAre
    <2>2. q \in 0..Len(d) /\ q < Len(d)
      BY <1>1, <1>2, <1>5, <2>1 DEF StartsAre
    <2>3. q \in U
      BY <1>6, <2>1, <2>2
    <2>4. HasRecord(e, q) /\ Behind(e, q) = p
      BY <1>8, <2>1, <2>2
    <2>5. p <= Len(e)
      BY <1>5
    <2>6. p \in U
      BY <1>1, <1>2, <2>3, <2>4, <2>5 DEF StartsAre
    <2> QED BY <1>5, <1>9, <2>6
  <1>10. CASE p \in U
    <2>1. PICK q \in U : q < p /\ HasRecord(e, q) /\ Behind(e, q) = p
      BY <1>1, <1>2, <1>7, <1>10 DEF StartsAre
    <2>2. q \in 0..Len(d) /\ q < Len(d)
      BY <1>1, <1>2, <1>5, <2>1 DEF StartsAre
    <2>3. q \in S
      BY <1>6, <2>1, <2>2
    <2>4. HasRecord(d, q) /\ Behind(d, q) = p
      BY <1>8, <2>1, <2>2, <2>3
    <2>5. p \in S
      BY <1>1, <1>2, <1>5, <2>3, <2>4 DEF StartsAre
    <2> QED BY <1>5, <1>10, <2>5
  <1> QED BY <1>5, <1>9, <1>10

-----------------------------------------------------------------------------
(* What does not change with the settings. *)

LEMMA Primes ==
  ASSUME UNCHANGED settings, NEW d, NEW p, NEW n
  PROVE  /\ Starts(d)' = Starts(d) /\ (Sound(d)' <=> Sound(d)) /\ (LineStart(d, p)' <=> LineStart(d, p))
         /\ (Astray(d, p)' <=> Astray(d, p)) /\ (Room(d, p, n)' <=> Room(d, p, n)) /\ RecordAt(d, p)' = RecordAt(d, p)
  <1>1. org' = org /\ split' = split
    BY DEF settings
  <1>2. Starts(d)' = Starts(d)
    BY <1>1 DEF Starts
  <1>3. Sound(d)' <=> Sound(d)
    BY <1>1, <1>2 DEF Sound
  <1>4. LineStart(d, p)' <=> LineStart(d, p)
    BY <1>1 DEF LineStart
  <1>5. Astray(d, p)' <=> Astray(d, p)
    BY <1>2 DEF Astray
  <1>6. Room(d, p, n)' <=> Room(d, p, n)
    BY <1>2 DEF Room
  <1>7. RecordAt(d, p)' = RecordAt(d, p)
    <2>1. LineAt(d, p)' = LineAt(d, p)
      BY <1>1 DEF LineAt
    <2>2. VariableAt(d, p)' = VariableAt(d, p)
      BY DEF VariableAt
    <2> QED BY <1>1, <2>1, <2>2 DEF RecordAt
  <1> QED BY <1>2, <1>3, <1>4, <1>5, <1>6, <1>7

\* Between operations, with the file where and what it was.
LEMMA IdleFrame ==
  ASSUME LineInv, VariableInv, UNCHANGED <<settings, files, place, mode, needsNl>>, pc = "idle", pc' = "idle"
  PROVE  LineInv' /\ VariableInv'
  <1>1. UNCHANGED <<org, split, files, cur, pos, mode, needsNl, bytes>> /\ UNCHANGED settings
    BY DEF settings, place, bytes
  <1>2. PICK d, p : d = bytes /\ p = pos
    OBVIOUS
  <1>3. /\ Starts(d)' = Starts(d) /\ (LineStart(d, p)' <=> LineStart(d, p)) /\ (Astray(d, p)' <=> Astray(d, p))
    BY <1>1, Primes
  <1>4. LineInv'
    BY <1>1, <1>2, <1>3 DEF LineInv, Reading
  <1>5. VariableInv'
    BY <1>1, <1>2, <1>3 DEF VariableInv, Reading
  <1> QED BY <1>4, <1>5

\* A closed file.
LEMMA ClosedFrame ==
  ASSUME mode' = "CLOSED", pc' = "idle", org' = "LINE" => \A k \in 1..Len(files') : Ended(files'[k])
  PROVE  LineInv' /\ VariableInv'
  <1>1. mode' \notin WriteModes /\ ~Reading' /\ pc' # "getc"
    BY DEF WriteModes, Reading, ReadModes
  <1> QED BY <1>1 DEF LineInv, VariableInv

\* No record has been read.
LEMMA NotDone ==
  ASSUME readDone' = FALSE
  PROVE  DoneInv'
  BY DEF DoneInv

\* Operations that only answer.
LEMMA AnswerTypes ==
  ASSUME Types, UNCHANGED <<settings, files, place, mode, pc, record, recSize, recOff, needsNl, from>>,
         eof' \in BOOLEAN, readDone' = FALSE \/ readDone' = readDone, status' \in Codes
  PROVE  Types'
  <1>1. UNCHANGED <<org, split, files, cur, pos, mode, pc, record, recSize, recOff, needsNl, from, bytes>>
    BY DEF settings, place, bytes
  <1>2. FileTypes' /\ PlaceTypes' /\ RecordTypes'
    BY <1>1 DEF Types, FileTypes, PlaceTypes, RecordTypes
  <1>3. ModeTypes'
    BY <1>1 DEF Types, ModeTypes
  <1>4. Control'
    BY <1>1 DEF Types, Control, Reading
  <1> QED BY <1>2, <1>3, <1>4 DEF Types

LEMMA CodesIs == {"00", "04", "06", "09", "10", "39", "41", "42", "43", "44", "46", "47", "48", "49", "71"} = Codes
  BY DEF Codes, Good

LEMMA OpenAgainKeeps ==
  ASSUME IInv, CobOpenAgain
  PROVE  IInv'
  <1>1. /\ UNCHANGED <<settings, files, place, mode, pc, record, recSize, recOff, flags, needsNl, ghosts>>
        /\ status' = "41" /\ pc = "idle"
    BY DEF CobOpenAgain, Idle, Returns
  <1>2. UNCHANGED <<settings, org, split, files, cur, pos, mode, pc, record, recSize, recOff, readDone, eof, needsNl, from, bytes>>
    BY <1>1 DEF settings, place, flags, ghosts, bytes
  <1>3. Types'
    <2>1. eof' \in BOOLEAN /\ status' \in Codes
      BY <1>1, <1>2, CodesIs DEF IInv, Types, ModeTypes
    <2> QED BY <1>1, <1>2, <2>1, AnswerTypes DEF IInv
  <1>4. LineInv' /\ VariableInv'
    BY <1>1, <1>2, IdleFrame DEF IInv
  <1>5. DoneInv'
    <2>1. "41" \notin Good
      BY DEF Good
    <2>2. PICK d, p, n, b : d = bytes /\ p = pos /\ n = recSize /\ b = from
      OBVIOUS
    <2>3. (LineStart(d, b)' <=> LineStart(d, b)) /\ (Room(d, p, n)' <=> Room(d, p, n))
      BY <1>2, Primes
    <2> QED BY <1>1, <1>2, <2>1, <2>2, <2>3 DEF IInv, DoneInv
  <1> QED BY <1>3, <1>4, <1>5 DEF IInv

LEMMA CloseAgainKeeps ==
  ASSUME IInv, CobCloseAgain
  PROVE  IInv'
  <1>1. /\ UNCHANGED <<settings, files, place, mode, pc, record, recSize, recOff, eof, needsNl, ghosts>>
        /\ status' = "42" /\ pc = "idle" /\ readDone' = FALSE
    BY DEF CobCloseAgain, Idle, Returns
  <1>2. Types'
    <2>1. eof' \in BOOLEAN /\ status' \in Codes
      BY <1>1, CodesIs DEF IInv, Types, ModeTypes
    <2> QED BY <1>1, <2>1, AnswerTypes DEF IInv, ghosts
  <1> QED BY <1>1, <1>2, IdleFrame, NotDone DEF IInv

LEMMA ReadRefusedKeeps ==
  ASSUME IInv, CobReadRefused
  PROVE  IInv'
  <1>1. /\ UNCHANGED <<settings, files, place, mode, pc, record, recSize, recOff, eof, needsNl, ghosts>>
        /\ status' \in {"46", "47"} /\ pc = "idle" /\ readDone' = FALSE
    BY DEF CobReadRefused, Idle, Returns
  <1>2. Types'
    <2>1. eof' \in BOOLEAN /\ status' \in Codes
      BY <1>1, CodesIs DEF IInv, Types, ModeTypes
    <2> QED BY <1>1, <2>1, AnswerTypes DEF IInv, ghosts
  <1> QED BY <1>1, <1>2, IdleFrame, NotDone DEF IInv

LEMMA OpenKeeps ==
  ASSUME IInv, NEW m \in {"INPUT", "OUTPUT", "I-O", "EXTEND"}, CobOpen(m)
  PROVE  IInv'
  <1>1. /\ pc = "idle" /\ mode = "CLOSED" /\ (m \in {"OUTPUT", "EXTEND"} => Len(files) = 1)
        /\ cur' = 1 /\ recOff' = 0 /\ readDone' = FALSE /\ eof' = FALSE
        /\ files' = (IF m = "OUTPUT" THEN <<<<>>>> ELSE files)
        /\ recSize' = FirstSize(m, files[1])
        /\ UNCHANGED <<org, split, settings, pc, record, needsNl, from>>
    BY DEF CobOpen, Idle, settings
  <1>2. \/ mode' = m /\ pos' = (IF m = "EXTEND" THEN Len(files[1]) ELSE 0) /\ status' = "00"
        \/ org = "VARIABLE" /\ mode' = "CLOSED" /\ pos' = 0 /\ status' = "39"
    <2>1. org # "VARIABLE" => Fitting(m, files[1])
      BY DEF Fitting
    <2> QED BY <2>1 DEF CobOpen, Returns
  <1>3. files' \in Seq(Seq(Cells)) /\ Len(files') \in Nat /\ Len(files') >= 1 /\ files'[1] \in Seq(Cells)
        /\ (m = "OUTPUT" => files'[1] = <<>> /\ Len(files') = 1) /\ (m = "EXTEND" => files' = files /\ Len(files') = 1)
    <2>1. files \in Seq(Seq(Cells)) /\ Len(files) >= 1
      BY DEF IInv, Types, FileTypes
    <2>2. <<>> \in Seq(Cells)
      OBVIOUS
    <2>3. <<<<>>>> \in Seq(Seq(Cells))
      BY <2>2
    <2> QED BY <1>1, <2>1, <2>3
  <1>4. needsNl = FALSE
    BY <1>1 DEF IInv, Types, ModeTypes, Control, WriteModes
  <1>5. m \in ReadModes \cup WriteModes /\ "00" \in Codes /\ "39" \in Codes
    BY CodesIs DEF ReadModes, WriteModes
  <1>6. Types'
    <2>1. FileTypes'
      BY <1>1, <1>3 DEF IInv, Types, FileTypes
    <2>2. PlaceTypes'
      <3>1. files[1] \in Seq(Cells)
        BY DEF IInv, Types, FileTypes
      <3>2. Len(files[1]) \in Nat
        BY <3>1
      <3> QED BY <1>1, <1>2, <3>2 DEF IInv, Types, PlaceTypes
    <2>3. ModeTypes'
      BY <1>1, <1>2, <1>4, <1>5 DEF IInv, Types, ModeTypes
    <2>4. RecordTypes'
      <3>1. FirstSize(m, files[1]) \in 0..9
        <4>1. Header(files[1]) => LengthIn(files[1][1]) \in 0..9
          BY DigitsIs DEF Header
        <4> QED BY <4>1 DEF FirstSize, IInv, Types, RecordTypes
      <3> QED BY <1>1, <3>1 DEF IInv, Types, RecordTypes
    <2>5. Control'
      <3>1. mode' \in WriteModes => cur' = 1 /\ Len(files') = 1 /\ pos' = Len(bytes')
        <4> SUFFICES ASSUME mode' \in WriteModes PROVE cur' = 1 /\ Len(files') = 1 /\ pos' = Len(files'[1])
          BY <1>1 DEF bytes
        <4>1. mode' = m /\ pos' = (IF m = "EXTEND" THEN Len(files[1]) ELSE 0) /\ m \in {"OUTPUT", "EXTEND"}
          BY <1>2 DEF WriteModes
        <4>2. Len(<<>>) = 0
          OBVIOUS
        <4> QED BY <1>1, <1>3, <4>1, <4>2
      <3> QED BY <1>1, <1>4, <3>1 DEF IInv, Types, Control
    <2> QED BY <2>1, <2>2, <2>3, <2>4, <2>5 DEF Types
  <1>7. LineInv'
    <2> SUFFICES ASSUME org = "LINE" PROVE LineInv'
      BY <1>1 DEF LineInv
    <2>1. mode' = m /\ pos' = (IF m = "EXTEND" THEN Len(files[1]) ELSE 0)
      BY <1>2
    <2>2. \A k \in 1..Len(files) : Ended(files[k])
      BY <1>1 DEF IInv, LineInv, WriteModes
    <2>3. Ended(<<>>)
      BY DEF Ended
    <2>4. mode' \notin WriteModes => \A k \in 1..Len(files') : Ended(files'[k])
      BY <1>1, <2>1, <2>2 DEF WriteModes
    <2>5. mode' \in WriteModes => Ended(bytes')
      <3>1. bytes' = files'[1]
        BY <1>1 DEF bytes
      <3>2. m # "OUTPUT" => Ended(files'[1])
        BY <1>1, <1>3, <2>2
      <3> QED BY <1>3, <2>3, <3>1, <3>2
    <2>6. Reading' => pos' = 0 /\ pos' <= Len(bytes')
      <3>1. Len(files'[1]) \in Nat
        BY <1>3
      <3> QED BY <1>1, <2>1, <3>1 DEF Reading, ReadModes, bytes
    <2>7. Reading' => LineStart(bytes, pos)'
      BY <2>6 DEF LineStart
    <2> QED BY <1>1, <2>4, <2>5, <2>6, <2>7 DEF LineInv
  <1>8. VariableInv'
    <2> SUFFICES ASSUME org = "VARIABLE", Reading' PROVE pos' \in Starts(bytes)'
      BY <1>1 DEF VariableInv
    <2>1. pos' = 0
      BY <1>2 DEF Reading, ReadModes
    <2>2. PICK d \in Seq(Cells) : d = bytes'
      BY <1>1, <1>3 DEF bytes
    <2>3. 0 \in Starts(d)
      BY StartsIs DEF StartsAre
    <2>4. Starts(d)' = Starts(d)
      BY <1>1, Primes
    <2> QED BY <2>1, <2>2, <2>3, <2>4
  <1> QED BY <1>1, <1>6, <1>7, <1>8, NotDone DEF IInv

\* CLOSE ends the last line, so its file is one that READ gets through.
LEMMA CloseKeeps ==
  ASSUME IInv, CobClose
  PROVE  IInv'
  <1>1. /\ pc = "idle" /\ mode # "CLOSED" /\ needsNl' = FALSE /\ mode' = "CLOSED" /\ readDone' = FALSE /\ cur' = 1 /\ pos' = 0
        /\ files' = (IF needsNl THEN [files EXCEPT ![cur] = Put(bytes, pos, <<"LF">>)] ELSE files)
        /\ status' = "00"
        /\ UNCHANGED <<org, split, pc, record, recSize, recOff, eof, from>>
    BY DEF CobClose, Idle, Returns, settings, ghosts, bytes
  <1>2. files \in Seq(Seq(Cells)) /\ cur \in 1..Len(files) /\ bytes \in Seq(Cells) /\ pos \in Nat
    BY DEF IInv, Types, FileTypes, PlaceTypes, bytes
  <1>3. PICK d \in Seq(Cells) : d = bytes
    BY <1>2
  <1>4. PICK w \in Seq(Cells) : w = <<"LF">> /\ Len(w) = 1 /\ w[1] = "LF"
    <2>1. "LF" \in Cells
      BY DEF Cells
    <2>2. <<"LF">> \in Seq(Cells)
      BY <2>1
    <2>3. Len(<<"LF">>) = 1 /\ <<"LF">>[1] = "LF"
      OBVIOUS
    <2> QED BY <2>2, <2>3
  <1>5. PICK e : e = Put(d, pos, w)
    OBVIOUS
  <1>6. /\ e \in Seq(Cells) /\ Len(e) = (IF Len(d) >= pos + Len(w) THEN Len(d) ELSE pos + Len(w))
        /\ \A k \in 1..Len(e) : e[k] = IF k \in pos + 1..pos + Len(w) THEN w[k - pos]
                                        ELSE IF k <= Len(d) THEN d[k] ELSE "NUL"
    BY <1>2, <1>5, PutIs
  <1>7. files' = (IF needsNl THEN [files EXCEPT ![cur] = e] ELSE files)
    BY <1>1, <1>3, <1>4, <1>5
  <1>8. files' \in Seq(Seq(Cells)) /\ Len(files') = Len(files)
    BY <1>2, <1>6, <1>7
  <1>9. Types'
    <2>1. FileTypes' /\ PlaceTypes' /\ RecordTypes'
      BY <1>1, <1>2, <1>8 DEF IInv, Types, FileTypes, PlaceTypes, RecordTypes
    <2>2. ModeTypes' /\ Control'
      BY <1>1, CodesIs DEF IInv, Types, ModeTypes, Control, Reading, ReadModes, WriteModes
    <2> QED BY <2>1, <2>2 DEF Types
  <1>10. ASSUME org = "LINE", NEW k \in 1..Len(files) PROVE Ended(files'[k])
    <2>1. CASE mode \notin WriteModes
      <3>1. needsNl = FALSE
        BY <2>1 DEF IInv, Types, ModeTypes, Control
      <3> QED BY <1>7, <1>10, <2>1, <3>1 DEF IInv, LineInv
    <2>2. CASE mode \in WriteModes
      <3>1. cur = 1 /\ k = 1 /\ pos = Len(d)
        <4>1. cur = 1 /\ Len(files) = 1 /\ pos = Len(bytes)
          BY <2>2 DEF IInv, Types, Control
        <4> QED BY <1>3, <4>1
      <3>2. CASE ~needsNl
        BY <1>1, <1>3, <1>10, <2>2, <3>1, <3>2 DEF IInv, LineInv, bytes
      <3>3. CASE needsNl
        <4>1. files'[k] = e
          BY <1>2, <1>7, <3>1, <3>3
        <4>2. Len(e) = pos + 1 /\ e[pos + 1] = "LF"
          <5>1. Len(e) = pos + 1
            BY <1>2, <1>4, <1>6, <3>1
          <5>2. e[pos + 1] = w[(pos + 1) - pos] /\ (pos + 1) - pos = 1
            BY <1>2, <1>4, <1>6, <5>1
          <5> QED BY <1>4, <5>1, <5>2
        <4>3. 0 \in 0..RecordMax - 1 /\ Len(e) - 0 = pos + 1
          BY <1>2, <4>2, SizesAssumption
        <4> QED BY <4>1, <4>2, <4>3 DEF Ended
      <3> QED BY <3>2, <3>3
    <2> QED BY <2>1, <2>2
  <1>11. LineInv' /\ VariableInv'
    BY <1>1, <1>8, <1>10, ClosedFrame
  <1> QED BY <1>1, <1>9, <1>11, NotDone DEF IInv

\* READ of a line starts with nothing of it.
LEMMA ReadLineKeeps ==
  ASSUME IInv, CobReadLine
  PROVE  IInv'
  <1>1. /\ pc = "idle" /\ Reading /\ org = "LINE" /\ pc' = "getc" /\ record' = <<>> /\ from' = pos
        /\ recOff' = (IF mode = "I-O" THEN pos ELSE recOff) /\ readDone' = FALSE /\ status' = "00"
        /\ UNCHANGED <<settings, org, split, files, cur, pos, mode, recSize, eof, needsNl, bytes>>
    BY DEF CobReadLine, MayRead, Idle, Reading, ReadModes, Returns, settings, place, bytes
  <1>2. bytes \in Seq(Cells) /\ pos \in Nat
    BY DEF IInv, Types, FileTypes, PlaceTypes, bytes
  <1>3. RecordMax \in 1..9 /\ <<>> \in Seq(Cells) /\ Len(<<>>) = 0
    BY SizesAssumption
  <1>4. Types'
    <2>1. FileTypes' /\ PlaceTypes'
      BY <1>1 DEF IInv, Types, FileTypes, PlaceTypes
    <2>2. RecordTypes'
      BY <1>1, <1>3 DEF IInv, Types, RecordTypes
    <2>3. ModeTypes'
      BY <1>1, CodesIs DEF IInv, Types, ModeTypes
    <2>4. Control'
      BY <1>1 DEF IInv, Types, Control, Reading
    <2> QED BY <2>1, <2>2, <2>3, <2>4 DEF Types
  <1>5. pos <= Len(bytes) /\ (LineStart(bytes, pos) \/ pos = Len(bytes))
    BY <1>1 DEF IInv, LineInv
  <1>6. PICK d, p : d = bytes /\ p = pos
    OBVIOUS
  <1>7. SoFar(d, p, p, <<>>, "00")
    BY <1>2, <1>5, <1>6, SoFarZero
  <1>8. LineStart(d, p)' <=> LineStart(d, p)
    BY <1>1, Primes
  <1>9. p - p = 0
    BY <1>2, <1>6
  <1>10. Taking'
    BY <1>1, <1>3, <1>5, <1>6, <1>7, <1>8, <1>9 DEF Taking
  <1>11. LineInv'
    BY <1>1, <1>10 DEF IInv, LineInv
  <1>12. VariableInv'
    BY <1>1 DEF VariableInv
  <1> QED BY <1>1, <1>4, <1>11, <1>12, NotDone DEF IInv

\* READ has delivered a line.
LEMMA DeliveredKeeps ==
  ASSUME IInv, pc = "getc", Delivered(bytes)
  PROVE  IInv'
  <1>1. /\ bytes \in Seq(Cells) /\ Taking /\ org = "LINE" /\ Reading /\ from \in Nat /\ RecordMax \in 1..9
    BY LineContext DEF IInv
  <1>2. PICK d \in Seq(Cells), p \in Nat, f \in Nat : d = bytes /\ p = pos' /\ f = from
    <2>1. pos' \in Nat
      BY DEF Delivered
    <2> QED BY <1>1, <2>1
  <1>3. /\ LineAt(d, f) = [record |-> record', pos |-> p, status |-> status']
        /\ status' \in Good /\ readDone' = TRUE /\ recSize' = Len(record') /\ pc' = "idle"
        /\ record' \in Seq(Cells) /\ Len(record') <= RecordMax /\ eof' = FALSE
        /\ f < p /\ p \in Nat /\ p <= Len(d) /\ \A k \in f + 1..p - 1 : d[k] # "LF"
        /\ LineStart(d, p) \/ p = Len(d)
        /\ UNCHANGED <<org, split, files, cur, mode, needsNl, from, recOff>>
    BY <1>2 DEF Delivered
  <1>4. UNCHANGED <<settings, bytes>>
    BY <1>3 DEF settings, bytes
  <1>5. Types'
    <2>1. FileTypes' /\ PlaceTypes'
      BY <1>2, <1>3 DEF IInv, Types, FileTypes, PlaceTypes
    <2>2. RecordTypes'
      <3>1. Len(record') \in 0..9
        <4>1. Len(record') \in Nat
          BY <1>3
        <4>2. PICK n \in Nat : n = Len(record')
          BY <4>1
        <4>3. n <= RecordMax
          BY <1>3, <4>2
        <4>4. n \in 0..9
          BY <4>3, SizesAssumption
        <4> QED BY <4>2, <4>4
      <3> QED BY <1>3, <3>1 DEF RecordTypes
    <2>3. ModeTypes'
      BY <1>3 DEF IInv, Types, ModeTypes, Codes
    <2>4. Control'
      BY <1>1, <1>3 DEF IInv, Types, Control, Reading, ReadModes, WriteModes
    <2> QED BY <2>1, <2>2, <2>3, <2>4 DEF Types
  <1>6. /\ Starts(d)' = Starts(d) /\ (LineStart(d, p)' <=> LineStart(d, p)) /\ (LineStart(d, f)' <=> LineStart(d, f))
        /\ RecordAt(d, f)' = RecordAt(d, f)
    BY <1>4, Primes
  <1>7. LineInv'
    BY <1>1, <1>2, <1>3, <1>4, <1>6 DEF IInv, LineInv, Reading
  <1>8. VariableInv'
    BY <1>1, <1>3 DEF VariableInv
  <1>9. DoneInv'
    <2>1. LineStart(d, f) /\ (mode = "I-O" => recOff = f)
      <3>1. (LineStart(d, f) \/ f = Len(d)) /\ (mode = "I-O" => recOff = f)
        BY <1>1, <1>2 DEF Taking
      <3> QED BY <1>3, <3>1
    <2>2. f \in 0..Len(d) - 1
      BY <1>2, <1>3
    <2>3. org' # "VARIABLE" /\ RecordAt(d, f) = LineAt(d, f)
      BY <1>1, <1>3 DEF RecordAt
    <2> QED BY <1>2, <1>3, <1>4, <1>6, <2>1, <2>2, <2>3 DEF DoneInv
  <1> QED BY <1>5, <1>7, <1>8, <1>9 DEF IInv

LEMMA LineEndKeeps ==
  ASSUME IInv, GetLineEnd
  PROVE  IInv'
  <1>1. pc = "getc"
    BY DEF GetLineEnd, Getting
  <1> QED BY <1>1, LineEndDelivers, DeliveredKeeps DEF IInv

LEMMA CharKeeps ==
  ASSUME IInv, GetChar
  PROVE  IInv'
  <1>1. pc = "getc"
    BY DEF GetChar, Getting
  <1>2. CASE Len(record) + 1 = RecordMax /\ split
    BY <1>1, <1>2, CharDelivers, DeliveredKeeps DEF IInv
  <1>3. CASE ~(Len(record) + 1 = RecordMax /\ split)
    <2>1. /\ SoFar(bytes, from, pos', record', status') /\ (split => pos' - from < RecordMax)
          /\ pos' = pos + 1 /\ status' \in Good /\ record' \in Seq(Cells) /\ Len(record') <= RecordMax
          /\ UNCHANGED <<org, split, files, cur, mode, pc, needsNl, from, recOff, recSize, readDone, eof>>
      BY <1>3, CharTakes DEF IInv
    <2>2. /\ bytes \in Seq(Cells) /\ Taking /\ org = "LINE" /\ Reading /\ ~readDone
      BY <1>1, LineContext DEF IInv, Types, Control
    <2>3. UNCHANGED <<settings, bytes>>
      BY <2>1 DEF settings, bytes
    <2>4. Types'
      <3>1. FileTypes' /\ PlaceTypes' /\ RecordTypes'
        BY <2>1 DEF IInv, Types, FileTypes, PlaceTypes, RecordTypes
      <3>2. ModeTypes'
        BY <2>1 DEF IInv, Types, ModeTypes, Codes
      <3>3. Control'
        BY <1>1, <2>1, <2>2 DEF IInv, Types, Control, Reading, ReadModes, WriteModes
      <3> QED BY <3>1, <3>2, <3>3 DEF Types
    <2>5. PICK d, f : d = bytes /\ f = from
      OBVIOUS
    <2>6. LineStart(d, f)' <=> LineStart(d, f)
      BY <2>3, Primes
    <2>7. Taking'
      BY <2>1, <2>2, <2>3, <2>5, <2>6 DEF Taking
    <2>8. LineInv'
      BY <1>1, <2>1, <2>2, <2>7 DEF IInv, LineInv, Reading, ReadModes, WriteModes
    <2>9. VariableInv'
      BY <2>1, <2>2 DEF VariableInv
    <2> QED BY <2>1, <2>2, <2>4, <2>8, <2>9 DEF IInv, DoneInv
  <1> QED BY <1>2, <1>3

LEMMA EofKeeps ==
  ASSUME IInv, GetEof
  PROVE  IInv'
  <1>1. pc = "getc" /\ Getting /\ record' = record
    BY DEF GetEof, Getting
  <1>2. /\ bytes \in Seq(Cells) /\ Taking /\ org = "LINE" /\ Reading /\ ~readDone
        /\ from \in Nat /\ pos \in Nat /\ RecordMax \in 1..9 /\ record \in Seq(Cells)
    BY <1>1, LineContext DEF IInv, Types, Control
  <1>3. CASE record # <<>>
    BY <1>1, <1>3, EofDelivers, DeliveredKeeps DEF IInv
  <1>4. CASE record = <<>>
    <2>1. UNCHANGED <<settings, org, split, files, mode, needsNl>>
      BY <1>1 DEF Getting, settings
    <2>2. SoFar(bytes, from, pos, record, status)
      BY <1>2 DEF Taking
    <2>3. pos = from /\ status = "00"
      <3>1. Len(record) = (IF pos - from <= RecordMax THEN pos - from ELSE RecordMax) /\ pos - from \in Nat
        BY <1>2, <2>2, SoFarIs
      <3>2. Len(record) = 0
        BY <1>4
      <3>3. pos = from
        BY <1>2, <3>1, <3>2
      <3>4. \A k \in from + 1..pos : FALSE
        BY <1>2, <3>3
      <3>5. pos - from = 0 /\ ~(0 > RecordMax)
        BY <1>2, <3>3
      <3> QED BY <2>2, <3>3, <3>4, <3>5 DEF SoFar, StatusSoFar
    <2>4. VariableInv'
      BY <1>2, <2>1 DEF VariableInv
    <2>5. \A k \in 1..Len(files) : Ended(files[k])
      BY <1>2 DEF IInv, LineInv, Reading, ReadModes, WriteModes
    <2>6. CASE cur < Len(files) /\ cur' = cur + 1
      <3>1. /\ pos' = 0 /\ from' = 0 /\ recOff' = (IF mode = "I-O" THEN 0 ELSE recOff)
            /\ UNCHANGED <<pc, recSize, readDone, eof, status>>
        BY <1>4, <2>6 DEF GetEof, flags
      <3>2. files'[cur'] \in Seq(Cells) /\ cur' \in 1..Len(files')
        BY <2>1, <2>6 DEF IInv, Types, FileTypes
      <3>3. Types'
        <4>1. FileTypes' /\ PlaceTypes' /\ RecordTypes'
          BY <1>1, <2>1, <3>1, <3>2 DEF IInv, Types, FileTypes, PlaceTypes, RecordTypes
        <4>2. ModeTypes'
          BY <2>1, <3>1 DEF IInv, Types, ModeTypes
        <4>3. Control'
          BY <1>1, <1>2, <2>1, <3>1 DEF IInv, Types, Control, Reading, ReadModes, WriteModes
        <4> QED BY <4>1, <4>2, <4>3 DEF Types
      <3>4. PICK d \in Seq(Cells) : d = bytes'
        BY <3>2 DEF bytes
      <3>5. SoFar(d, 0, 0, <<>>, "00")
        BY SoFarZero
      <3>6. LineStart(d, 0)'
        BY DEF LineStart
      <3>7. Taking'
        BY <1>1, <1>2, <1>4, <2>1, <2>3, <3>1, <3>4, <3>5, <3>6 DEF Taking
      <3>8. LineInv'
        BY <1>1, <1>2, <2>1, <2>5, <3>1, <3>7 DEF LineInv, Reading, ReadModes, WriteModes
      <3> QED BY <1>2, <2>4, <3>1, <3>3, <3>8 DEF IInv, DoneInv
    <2>7. CASE cur = Len(files) /\ pc' = "idle"
      <3>1. ReadStatus("10") /\ UNCHANGED <<cur, pos, recSize, recOff, from>> /\ pc' = "idle"
        <4>1. cur \in Nat /\ Len(files) \in Nat
          BY DEF IInv, Types, FileTypes
        <4> QED BY <1>4, <2>7, <4>1 DEF GetEof, place
      <3>2. status' = "10" /\ readDone' = FALSE /\ eof' \in BOOLEAN /\ "10" \in Codes
        <4>1. "10" \notin Good
          BY DEF Good
        <4> QED BY <3>1, <4>1, ReadStatusIs, CodesIs DEF IInv, Types, ModeTypes
      <3>3. UNCHANGED bytes
        BY <2>1, <3>1 DEF bytes
      <3>4. Types'
        <4>1. FileTypes' /\ PlaceTypes' /\ RecordTypes'
          BY <1>1, <2>1, <3>1 DEF IInv, Types, FileTypes, PlaceTypes, RecordTypes
        <4>2. ModeTypes'
          BY <2>1, <3>1, <3>2 DEF IInv, Types, ModeTypes
        <4>3. Control'
          BY <1>1, <1>2, <2>1, <3>1, <3>2 DEF IInv, Types, Control, Reading, ReadModes, WriteModes
        <4> QED BY <4>1, <4>2, <4>3 DEF Types
      <3>5. PICK d, p : d = bytes /\ p = pos
        OBVIOUS
      <3>6. (LineStart(d, p)' <=> LineStart(d, p))
        BY <2>1, Primes
      <3>7. p <= Len(d) /\ (LineStart(d, p) \/ p = Len(d))
        BY <1>2, <2>2, <2>3, <3>5 DEF Taking, SoFar
      <3>8. LineInv'
        BY <1>2, <2>1, <2>5, <3>1, <3>3, <3>5, <3>6, <3>7 DEF LineInv, Reading, ReadModes, WriteModes
      <3> QED BY <2>4, <3>2, <3>4, <3>8, NotDone DEF IInv
    <2> QED BY <1>4, <2>6, <2>7 DEF GetEof
  <1> QED BY <1>3, <1>4

-----------------------------------------------------------------------------
(* Records to be written. *)

LEMMA RecIs ==
  ASSUME NEW rec \in Records
  PROVE  /\ rec \in Seq(Cells) /\ Len(rec) \in 0..RecordMax /\ Len(rec) \in 0..9
         /\ \A k \in 1..Len(rec) : rec[k] \in {"x", "y", " ", "CR"}
  <1>1. PICK n \in 0..RecordMax : rec \in [1..n -> {"x", "y", " ", "CR"}]
    BY RecordsAssumption
  <1>2. n \in Nat /\ n \in 0..9
    BY SizesAssumption
  <1>3. \A c \in {"x", "y", " ", "CR"} : c \in Cells
    BY DEF Cells
  <1>4. rec \in [1..n -> Cells]
    BY <1>1, <1>3
  <1>5. rec \in Seq(Cells) /\ Len(rec) = n
    BY <1>2, <1>4
  <1> QED BY <1>1, <1>2, <1>5

LEMMA GreatestOf ==
  ASSUME NEW n \in Nat, NEW M \in SUBSET (0..n), M # {}
  PROVE  \E x \in M : \A m \in M : m <= x
  <1>1. PICK N : N = {k \in 0..n : n - k \in M}
    OBVIOUS
  <1>2. N \in SUBSET Nat
    BY <1>1
  <1>3. N # {}
    <2>1. PICK m \in M : TRUE
      OBVIOUS
    <2>2. n - m \in 0..n /\ n - (n - m) = m
      BY <2>1
    <2> QED BY <1>1, <2>1, <2>2
  <1>4. PICK k \in N : \A j \in N : k <= j
    BY <1>2, <1>3, LeastOf
  <1>5. k \in 0..n /\ n - k \in M
    BY <1>1
  <1>6. ASSUME NEW m \in M PROVE m <= n - k
    <2>1. m \in 0..n /\ n - m \in 0..n /\ n - (n - m) = m
      OBVIOUS
    <2>2. n - m \in N
      BY <1>1, <2>1
    <2>3. k <= n - m
      BY <1>4, <2>2
    <2> QED BY <1>5, <2>1, <2>3
  <1> QED BY <1>5, <1>6

LEMMA TrimmedIs ==
  ASSUME NEW rec \in Seq(Cells)
  PROVE  /\ LineseqSize(rec) \in 0..Len(rec) /\ Trimmed(rec) \in Seq(Cells) /\ Len(Trimmed(rec)) = LineseqSize(rec)
         /\ \A k \in 1..LineseqSize(rec) : Trimmed(rec)[k] = rec[k]
  <1>1. PICK n \in Nat : n = Len(rec)
    OBVIOUS
  <1>2. PICK M : M = {0} \cup {k \in 1..Len(rec) : rec[k] # " "}
    OBVIOUS
  <1>3. M \in SUBSET (0..n) /\ M # {} /\ M \in SUBSET Nat
    <2>1. ASSUME NEW m \in M PROVE m \in 0..n
      <3>1. m = 0 \/ m \in 1..Len(rec)
        BY <1>2
      <3> QED BY <1>1, <3>1
    <2>2. 0 \in M
      BY <1>2
    <2> QED BY <2>1, <2>2
  <1>4. PICK x \in M : \A m \in M : m <= x
    BY <1>1, <1>3, GreatestOf
  <1>5. x \in 0..n /\ x \in Nat
    BY <1>1, <1>3
  <1>6. \A y \in M : x >= y
    BY <1>3, <1>4, <1>5
  <1>7. Max(M) = x
    BY <1>3, <1>6, MaxIs
  <1>8. LineseqSize(rec) = x
    BY <1>2, <1>7 DEF LineseqSize
  <1>9. SubSeq(rec, 0 + 1, x) \in Seq(Cells) /\ Len(SubSeq(rec, 0 + 1, x)) = x - 0 /\ \A k \in 1..x - 0 : SubSeq(rec, 0 + 1, x)[k] = rec[0 + k]
    BY <1>1, <1>5, SubSeqIs
  <1>10. x - 0 = x /\ 0 + 1 = 1 /\ \A k \in 1..x : 0 + k = k
    BY <1>5
  <1> QED BY <1>1, <1>5, <1>8, <1>9, <1>10 DEF Trimmed

\* What Trimmed leaves off are spaces.
LEMMA BlankBehind ==
  ASSUME NEW rec \in Seq(Cells), NEW k \in LineseqSize(rec) + 1..Len(rec), LineseqSize(rec) \in Nat
  PROVE  rec[k] = " "
  <1>1. PICK n \in Nat : n = Len(rec)
    OBVIOUS
  <1>2. PICK M : M = {0} \cup {j \in 1..Len(rec) : rec[j] # " "}
    OBVIOUS
  <1>3. M \in SUBSET (0..n) /\ M # {} /\ M \in SUBSET Nat
    <2>1. ASSUME NEW m \in M PROVE m \in 0..n
      <3>1. m = 0 \/ m \in 1..Len(rec)
        BY <1>2
      <3> QED BY <1>1, <3>1
    <2>2. 0 \in M
      BY <1>2
    <2> QED BY <2>1, <2>2
  <1>4. PICK x \in M : \A m \in M : m <= x
    BY <1>1, <1>3, GreatestOf
  <1>5. LineseqSize(rec) = x
    <2>1. M \in SUBSET Nat /\ x \in Nat /\ \A y \in M : x >= y
      <3>1. x \in Nat
        BY <1>3
      <3> QED BY <1>3, <1>4, <3>1
    <2>2. Max(M) = x
      BY <2>1, MaxIs
    <2> QED BY <1>2, <2>2 DEF LineseqSize
  <1>6. x \in Nat /\ k \in 1..Len(rec) /\ k > x
    <2>1. x \in Nat
      BY <1>3
    <2> QED BY <1>1, <1>5, <2>1
  <1>7. k \notin M
    BY <1>4, <1>6
  <1> QED BY <1>2, <1>6, <1>7

LEMMA NewlinesIs ==
  ASSUME NEW adv \in Advances, adv.lines > 0
  PROVE  Advance(adv) \in Seq(Cells) /\ Len(Advance(adv)) = adv.lines /\ adv.lines \in Nat
         /\ \A k \in 1..adv.lines : Advance(adv)[k] = "LF"
  <1>1. adv.lines \in Nat
    BY AdvancesAssumption
  <1>2. "LF" \in Cells
    BY DEF Cells
  <1>3. PICK n \in Nat : n = adv.lines
    BY <1>1
  <1>4. PICK s : s = [k \in 1..n |-> "LF"]
    OBVIOUS
  <1>5. s \in Seq(Cells) /\ Len(s) = n /\ \A k \in 1..n : s[k] = "LF"
    BY <1>2, <1>4
  <1>6. Advance(adv) = s
    BY <1>1, <1>3, <1>4 DEF Advance, Newlines
  <1> QED BY <1>3, <1>5, <1>6

\* WRITE is always at the end of the file.
LEMMA AppendsIs ==
  ASSUME IInv, mode \in WriteModes, NEW cells \in Seq(Cells), Appends(cells)
  PROVE  /\ files' \in Seq(Seq(Cells)) /\ Len(files') = 1 /\ cur = 1
         /\ pos' \in Nat /\ files'[1] \in Seq(Cells) /\ Len(files'[1]) = pos' /\ pos' = Len(bytes) + Len(cells)
         /\ \A k \in 1..Len(cells) : files'[1][Len(bytes) + k] = cells[k]
         /\ \A k \in 1..Len(bytes) : files'[1][k] = bytes[k]
  <1>1. cur = 1 /\ Len(files) = 1 /\ pos = Len(bytes) /\ files \in Seq(Seq(Cells)) /\ bytes \in Seq(Cells) /\ pos \in Nat
    BY DEF IInv, Types, FileTypes, PlaceTypes, Control, bytes
  <1>2. PICK d \in Seq(Cells) : d = bytes
    BY <1>1
  <1>3. PICK e : e = Put(d, pos, cells)
    OBVIOUS
  <1>4. /\ e \in Seq(Cells) /\ Len(e) = (IF Len(d) >= pos + Len(cells) THEN Len(d) ELSE pos + Len(cells))
        /\ \A k \in 1..Len(e) : e[k] = IF k \in pos + 1..pos + Len(cells) THEN cells[k - pos]
                                        ELSE IF k <= Len(d) THEN d[k] ELSE "NUL"
    <2>1. pos \in Nat
      BY <1>1
    <2> QED BY <1>3, <2>1, PutIs
  <1>5. files' = [files EXCEPT ![cur] = e] /\ pos' = pos + Len(cells)
    BY <1>2, <1>3 DEF Appends
  <1>6. files' \in Seq(Seq(Cells)) /\ Len(files') = 1 /\ files'[1] = e
    <2>1. PICK g \in Seq(Seq(Cells)) : g = files /\ Len(g) = 1
      BY <1>1
    <2>2. files' = [g EXCEPT ![1] = e]
      BY <1>1, <1>5, <2>1
    <2>3. e \in Seq(Cells)
      BY <1>4
    <2>4. DOMAIN g = 1..1 /\ 1 \in 1..1
      BY <2>1
    <2>5. 1 \in 1..Len(g) /\ g \in Seq(Seq(Cells))
      BY <2>1
    <2>6. [g EXCEPT ![1] = e] \in Seq(Seq(Cells)) /\ Len([g EXCEPT ![1] = e]) = Len(g)
      BY <2>3, <2>5, ExceptSeq
    <2>7. [g EXCEPT ![1] = e][1] = e
      BY <2>1, <2>4
    <2> QED BY <2>1, <2>2, <2>6, <2>7
  <1>7. PICK n \in Nat, m \in Nat : n = Len(d) /\ m = Len(cells)
    OBVIOUS
  <1>8. Len(e) = n + m
    BY <1>1, <1>2, <1>4, <1>7
  <1>9. ASSUME NEW k \in 1..m PROVE e[n + k] = cells[k]
    <2>1. n + k \in 1..n + m /\ n + k \in n + 1..n + m /\ (n + k) - n = k
      OBVIOUS
    <2> QED BY <1>1, <1>2, <1>4, <1>7, <1>8, <2>1
  <1>10. ASSUME NEW k \in 1..n PROVE e[k] = d[k]
    <2>1. k \in 1..n + m /\ k \notin n + 1..n + m /\ k <= n
      OBVIOUS
    <2> QED BY <1>1, <1>2, <1>4, <1>7, <1>8, <2>1
  <1> QED BY <1>1, <1>2, <1>4, <1>5, <1>6, <1>7, <1>8, <1>9, <1>10

\* What a WRITE may do.
LEMMA WritesTypes ==
  ASSUME IInv, mode \in WriteModes, pc = "idle", NEW rec \in Records, Fills(rec), readDone' = FALSE,
         UNCHANGED <<org, split, cur, mode, pc, recOff, eof, from>>, status' \in Codes, needsNl' \in BOOLEAN,
         \/ UNCHANGED <<files, pos>>
         \/ files' \in Seq(Seq(Cells)) /\ Len(files') = 1 /\ pos' \in Nat /\ Len(files'[1]) = pos',
         org = "LINE" => needsNl' \/ Ended(files'[1])
  PROVE  IInv'
  <1>1. cur = 1 /\ Len(files) = 1 /\ pos = Len(bytes) /\ files \in Seq(Seq(Cells)) /\ pos \in Nat
    BY DEF IInv, Types, FileTypes, PlaceTypes, Control
  <1>2. files' \in Seq(Seq(Cells)) /\ Len(files') = 1 /\ pos' \in Nat /\ Len(files'[1]) = pos' /\ bytes' = files'[1]
    BY <1>1 DEF bytes
  <1>3. record' \in Seq(Cells) /\ Len(record') <= RecordMax /\ recSize' \in 0..9
    <2>1. rec \in Seq(Cells) /\ Len(rec) \in 0..RecordMax /\ Len(rec) \in 0..9
      BY RecIs
    <2>2. SizeOf(rec) \in 0..9
      <3>1. LineseqSize(rec) \in 0..Len(rec)
        BY <2>1, TrimmedIs
      <3>2. LineseqSize(rec) \in 0..9
        <4>1. PICK n : n = Len(rec) /\ n \in 0..9
          BY <2>1
        <4>2. PICK x : x = LineseqSize(rec) /\ x \in 0..n
          BY <3>1, <4>1
        <4>3. x \in 0..9
          BY <4>1, <4>2
        <4> QED BY <4>2, <4>3
      <3> QED BY <2>1, <3>2 DEF SizeOf
    <2>3. record' = rec /\ recSize' = SizeOf(rec)
      BY DEF Fills
    <2>4. Len(rec) <= RecordMax
      BY <2>1, SizesAssumption
    <2> QED BY <2>1, <2>2, <2>3, <2>4
  <1>4. Types'
    <2>1. FileTypes' /\ PlaceTypes' /\ RecordTypes'
      BY <1>1, <1>2, <1>3 DEF IInv, Types, FileTypes, PlaceTypes, RecordTypes
    <2>2. ModeTypes'
      BY DEF IInv, Types, ModeTypes
    <2>3. Control'
      BY <1>1, <1>2 DEF Control
    <2> QED BY <2>1, <2>2, <2>3 DEF Types
  <1>5. ~Reading' /\ pc' # "getc" /\ mode' \in WriteModes
    BY DEF Reading, ReadModes, WriteModes
  <1>6. LineInv' /\ VariableInv'
    BY <1>2, <1>5 DEF LineInv, VariableInv
  <1> QED BY <1>4, <1>6, NotDone DEF IInv

\* A text with line feeds behind it ends its file.
LEMMA EndedBehind ==
  ASSUME NEW d \in Seq(Cells), d[Len(d)] = "LF"
  PROVE  Ended(d)
  <1>1. 0 \in 0..RecordMax - 1 /\ Len(d) - 0 = Len(d)
    BY SizesAssumption
  <1> QED BY <1>1 DEF Ended

LEMMA WriteKeeps ==
  ASSUME IInv, LinesAdvance, NEW rec \in Records, NEW adv \in Advances, CobWrite(rec, adv)
  PROVE  IInv'
  <1>1. pc = "idle" /\ readDone' = FALSE /\ UNCHANGED <<settings, org, split, cur, mode, pc, recOff, eof, from>>
    BY DEF CobWrite, Idle, settings
  <1>2. CASE mode \notin WriteModes
    <2>1. status' = "48" /\ UNCHANGED <<files, pos, needsNl, wrote, overprint, record, recSize>>
      BY <1>2 DEF CobWrite, Refused, WriteModes, Returns
    <2>2. Types'
      <3>1. status' \in Codes /\ eof' \in BOOLEAN
        BY <1>1, <2>1, CodesIs DEF IInv, Types, ModeTypes
      <3> QED BY <1>1, <2>1, <3>1, AnswerTypes DEF IInv, place
    <2> QED BY <1>1, <2>1, <2>2, IdleFrame, NotDone DEF IInv, place
  <1>3. CASE mode \in WriteModes
    <2>1. /\ Fills(rec)
          /\ \/ Refused("44")
             \/ org = "VARIABLE" /\ SequentialWrite(rec)
             \/ org = "LINE" /\ LineseqWrite(rec, adv)
      BY <1>3 DEF CobWrite, WriteModes
    <2>2. cur = 1 /\ needsNl \in BOOLEAN /\ bytes = files[1] /\ bytes \in Seq(Cells) /\ (org = "LINE" => needsNl \/ Ended(files[1]))
      BY <1>3 DEF IInv, Types, FileTypes, ModeTypes, Control, LineInv, bytes
    <2>3. rec \in Seq(Cells) /\ Len(rec) \in 0..9
      BY RecIs
    <2>4. CASE Refused("44")
      <3>1. status' = "44" /\ UNCHANGED <<files, pos, needsNl>>
        BY <2>4 DEF Refused, Returns
      <3> QED BY <1>1, <1>3, <2>1, <2>2, <3>1, CodesIs, WritesTypes
    <2>5. CASE org = "VARIABLE" /\ SequentialWrite(rec)
      <3>1. PICK cells : cells = <<LengthCell(Len(rec))>> \o rec
        OBVIOUS
      <3>2. cells \in Seq(Cells)
        <4>1. LengthCell(Len(rec)) \in Cells
          BY <2>3, DigitsIs DEF Cells
        <4> QED BY <2>3, <3>1, <4>1
      <3>3. Appends(cells) /\ status' = "00" /\ UNCHANGED needsNl
        BY <2>5, <3>1 DEF SequentialWrite, Returns
      <3>4. files' \in Seq(Seq(Cells)) /\ Len(files') = 1 /\ pos' \in Nat /\ Len(files'[1]) = pos'
        BY <1>3, <3>2, <3>3, AppendsIs
      <3> QED BY <1>1, <1>3, <2>1, <2>2, <2>5, <3>3, <3>4, CodesIs, WritesTypes
    <2>6. CASE org = "LINE" /\ LineseqWrite(rec, adv)
      <3>1. adv.lines > 0 /\ adv.phrase \in {"BEFORE", "AFTER"}
        BY AdvancesAssumption DEF LinesAdvance
      <3>2. Advance(adv) \in Seq(Cells) /\ Len(Advance(adv)) = adv.lines /\ adv.lines \in Nat
            /\ \A k \in 1..adv.lines : Advance(adv)[k] = "LF"
        BY <3>1, NewlinesIs
      <3>3. Trimmed(rec) \in Seq(Cells)
        BY <2>3, TrimmedIs
      <3>4. PICK before, after : before = (IF adv.phrase = "AFTER" THEN Advance(adv) ELSE <<>>)
                                 /\ after = IF adv.phrase = "BEFORE" THEN Advance(adv) ELSE <<>>
        OBVIOUS
      <3>5. PICK bad \in BOOLEAN : bad <=> \E k \in DOMAIN Trimmed(rec) : IsBadChar(Trimmed(rec)[k])
        OBVIOUS
      <3>6. PICK cells : cells = IF bad THEN before ELSE before \o Trimmed(rec) \o after
        OBVIOUS
      <3>7. /\ Appends(cells) /\ needsNl' = (adv.phrase = "AFTER" \/ (bad /\ needsNl))
            /\ status' = IF bad THEN "71" ELSE "00"
        BY <2>6, <3>4, <3>5, <3>6 DEF LineseqWrite, Returns
      <3>8. before \in Seq(Cells) /\ after \in Seq(Cells) /\ cells \in Seq(Cells)
        BY <3>2, <3>3, <3>4, <3>6
      <3>9. /\ files' \in Seq(Seq(Cells)) /\ Len(files') = 1 /\ pos' \in Nat /\ files'[1] \in Seq(Cells)
            /\ Len(files'[1]) = pos' /\ pos' = Len(bytes) + Len(cells)
            /\ \A k \in 1..Len(cells) : files'[1][Len(bytes) + k] = cells[k]
            /\ \A k \in 1..Len(bytes) : files'[1][k] = bytes[k]
        BY <1>3, <3>7, <3>8, AppendsIs
      <3>10. status' \in Codes /\ needsNl' \in BOOLEAN
        BY <3>7, CodesIs
      <3>11. needsNl' \/ Ended(files'[1])
        <4>1. CASE adv.phrase = "AFTER"
          BY <3>7, <4>1
        <4>2. CASE adv.phrase = "BEFORE" /\ bad
          <5>1. cells = <<>> /\ (needsNl' <=> needsNl)
            BY <2>2, <3>4, <3>6, <3>7, <4>2
          <5>2. Len(files'[1]) = Len(bytes)
            BY <2>2, <3>9, <5>1
          <5>3. files'[1] = bytes
            BY <2>2, <3>9, <5>2, SameSeq
          <5> QED BY <2>2, <2>6, <5>1, <5>3
        <4>3. CASE adv.phrase = "BEFORE" /\ ~bad
          <5>1. cells = Trimmed(rec) \o Advance(adv)
            BY <3>3, <3>4, <3>6, <4>3
          <5>2. PICK n \in Nat, m \in Nat : n = Len(Trimmed(rec)) /\ m = adv.lines
            BY <3>2, <3>3
          <5>3. PICK t \in Seq(Cells), u \in Seq(Cells) : t = Trimmed(rec) /\ u = Advance(adv) /\ Len(t) = n /\ Len(u) = m
            BY <3>2, <3>3, <5>2
          <5>4. m > 0 /\ u[m] = "LF"
            BY <3>1, <3>2, <5>2, <5>3
          <5>5. Len(cells) = n + m /\ cells[n + m] = u[m]
            BY <5>1, <5>3, <5>4, ConcatProperties
          <5>6. n + m \in 1..Len(cells)
            BY <5>4, <5>5
          <5>7. files'[1][Len(bytes) + (n + m)] = "LF"
            BY <3>9, <5>4, <5>5, <5>6
          <5>8. Len(files'[1]) = Len(bytes) + (n + m)
            BY <3>9, <5>5
          <5>9. files'[1] \in Seq(Cells) /\ files'[1][Len(files'[1])] = "LF"
            BY <3>9, <5>7, <5>8
          <5> QED BY <5>9, EndedBehind
        <4> QED BY <3>1, <3>7, <4>1, <4>2, <4>3
      <3> QED BY <1>1, <1>3, <2>1, <3>9, <3>10, <3>11, WritesTypes
    <2> QED BY <2>1, <2>4, <2>5, <2>6
  <1> QED BY <1>2, <1>3

-----------------------------------------------------------------------------
(* READ of a variable-length record. *)

\* What READ takes of the record at p, and where it goes.
CutAt(d, p) == SubSeq(d, p + 2, Smaller(p + 1 + Smaller(LengthIn(d[p + 1]), RecordMax), Len(d)))
GoesTo(d, p) == p + 1 + Len(CutAt(d, p)) + Skip(LengthIn(d[p + 1]), CutAt(d, p))
CutStatus(d, p) ==
  IF LengthIn(d[p + 1]) \in RecordMin..RecordMax /\ (CutAt(d, p) # <<>> \/ LengthIn(d[p + 1]) = 0) THEN "00" ELSE "04"

LEMMA CutIs ==
  ASSUME NEW d \in Seq(Cells), NEW p \in Nat, HasRecord(d, p)
  PROVE  /\ CutAt(d, p) \in Seq(Cells) /\ Len(CutAt(d, p)) \in 0..RecordMax
         /\ GoesTo(d, p) \in Nat /\ p < GoesTo(d, p) /\ GoesTo(d, p) <= Behind(d, p)
         /\ p + 1 <= GoesTo(d, p) - Len(CutAt(d, p))
         /\ Len(d) < Behind(d, p) => Len(d) <= GoesTo(d, p)
         /\ Behind(d, p) <= Len(d) => VariableAt(d, p) = [record |-> CutAt(d, p), pos |-> GoesTo(d, p), status |-> CutStatus(d, p)]
  <1>1. PICK size \in 0..9 : size = LengthIn(d[p + 1])
    BY BehindIs
  <1>2. RecordMax \in 1..9 /\ p < Len(d) /\ Behind(d, p) = p + 1 + size
    BY <1>1, SizesAssumption DEF HasRecord, Behind
  <1>3. PICK m \in Nat : m = Smaller(size, RecordMax) /\ m <= size /\ m <= RecordMax /\ (m = size \/ (m = RecordMax /\ m < size))
    <2>1. Smaller(size, RecordMax) = IF size <= RecordMax THEN size ELSE RecordMax
      BY <1>1, <1>2, SmallerIs
    <2>2. size \in Nat /\ RecordMax \in Nat
      BY <1>2
    <2> QED BY <2>1, <2>2
  <1>4. PICK last \in Nat : last = Smaller(p + 1 + m, Len(d)) /\ last <= Len(d) /\ last <= p + 1 + m
                            /\ (last = Len(d) \/ last = p + 1 + m) /\ p + 1 <= last
    <2>1. p + 1 + m \in Nat /\ Len(d) \in Nat
      OBVIOUS
    <2>2. Smaller(p + 1 + m, Len(d)) = IF p + 1 + m <= Len(d) THEN p + 1 + m ELSE Len(d)
      BY <2>1, SmallerIs
    <2> QED BY <1>2, <2>1, <2>2
  <1>5. PICK data : data = CutAt(d, p)
    OBVIOUS
  <1>6. data \in Seq(Cells) /\ Len(data) = last - (p + 1)
    <2>1. data = SubSeq(d, p + 2, last)
      BY <1>1, <1>3, <1>4, <1>5 DEF CutAt
    <2>2. p + 1 \in Nat /\ (p + 1) + 1 = p + 2
      OBVIOUS
    <2>3. SubSeq(d, (p + 1) + 1, last) \in Seq(Cells) /\ Len(SubSeq(d, (p + 1) + 1, last)) = last - (p + 1)
      BY <1>4, <2>2, SubSeqIs
    <2> QED BY <2>1, <2>2, <2>3
  <1>7. PICK n \in Nat : n = Len(data) /\ n = last - (p + 1)
    BY <1>6
  <1>8. n <= m /\ (n = m \/ last = Len(d)) /\ (n = 0 <=> data = <<>>)
    BY <1>4, <1>6, <1>7
  <1>9. PICK k \in Nat : k = Skip(size, data) /\ (k = 0 \/ (size > RecordMax /\ n > 0 /\ k = size - RecordMax))
                         /\ (size > RecordMax /\ n > 0 => k = size - RecordMax)
    <2>1. CASE size > RecordMax /\ data # <<>>
      <3>1. Skip(size, data) = size - RecordMax
        BY <2>1 DEF Skip
      <3>2. size - RecordMax \in Nat /\ n > 0
        BY <1>2, <1>8, <2>1
      <3> QED BY <2>1, <3>1, <3>2
    <2>2. CASE ~(size > RecordMax /\ data # <<>>)
      <3>1. Skip(size, data) = 0
        BY <2>2 DEF Skip
      <3>2. ~(size > RecordMax /\ n > 0)
        BY <1>8, <2>2
      <3> QED BY <3>1, <3>2
    <2> QED BY <2>1, <2>2
  <1>10. GoesTo(d, p) = p + 1 + n + k
    BY <1>1, <1>5, <1>7, <1>9 DEF GoesTo
  <1>11. n + k <= size
    BY <1>2, <1>3, <1>8, <1>9
  <1>12. n \in 0..RecordMax
    BY <1>2, <1>3, <1>8
  <1>13. p + 1 + n + k \in Nat /\ p < p + 1 + n + k /\ p + 1 + n + k <= p + 1 + size /\ p + 1 <= (p + 1 + n + k) - n
    BY <1>11
  <1>14. ASSUME Len(d) < p + 1 + size PROVE Len(d) <= p + 1 + n + k
    <2>1. CASE last = Len(d)
      BY <1>7, <2>1
    <2>2. CASE last # Len(d)
      <3>1. n = m
        BY <1>8, <2>2
      <3>2. CASE m = size
        BY <1>14, <3>1, <3>2
      <3>3. CASE m = RecordMax /\ m < size
        <4>1. k = size - RecordMax
          BY <1>2, <1>9, <3>1, <3>3
        <4> QED BY <1>14, <3>1, <3>3, <4>1
      <3> QED BY <1>3, <3>2, <3>3
    <2> QED BY <2>1, <2>2
  <1>15. ASSUME p + 1 + size <= Len(d)
         PROVE  VariableAt(d, p) = [record |-> CutAt(d, p), pos |-> GoesTo(d, p), status |-> CutStatus(d, p)]
    <2>1. last = p + 1 + m /\ n = m
      BY <1>3, <1>4, <1>7, <1>15, SMTT(30)
    <2>2. p + 1 + n + k = p + 1 + size
      <3>1. CASE m = size
        <4>1. ~(size > RecordMax)
          BY <1>2, <1>3, <3>1
        <4> QED BY <1>9, <2>1, <3>1, <4>1
      <3>2. CASE m = RecordMax /\ m < size
        <4>1. k = size - RecordMax
          BY <1>2, <1>9, <2>1, <3>2
        <4> QED BY <1>2, <2>1, <3>2, <4>1
      <3> QED BY <1>3, <3>1, <3>2
    <2>3. GoesTo(d, p) = Behind(d, p)
      BY <1>2, <1>10, <2>2
    <2>4. CutAt(d, p) = SubSeq(d, p + 2, p + 1 + Smaller(size, RecordMax))
      BY <1>1, <1>3, <1>4, <2>1 DEF CutAt
    <2>5. data # <<>> \/ size = 0
      BY <1>2, <1>3, <1>8, <2>1
    <2>6. CutStatus(d, p) = IF size \in RecordMin..RecordMax THEN "00" ELSE "04"
      BY <1>1, <1>5, <2>5 DEF CutStatus
    <2> QED BY <1>1, <2>3, <2>4, <2>6 DEF VariableAt
  <1> QED BY <1>2, <1>5, <1>6, <1>7, <1>10, <1>12, <1>13, <1>14, <1>15

\* The ways of CobReadVariable.
LEMMA VariableWays ==
  ASSUME Types, CobReadVariable
  PROVE  /\ org = "VARIABLE" /\ Reading /\ bytes \in Seq(Cells) /\ pos \in Nat /\ cur \in 1..Len(files)
         /\ UNCHANGED <<settings, org, split, files, mode, recOff, needsNl>>
         /\ \/ /\ Len(bytes) <= pos /\ cur < Len(files) /\ cur' = cur + 1 /\ pos' = 0 /\ from' = 0 /\ pc' = "next"
               /\ readDone' = FALSE /\ UNCHANGED <<record, recSize, status, eof>>
            \/ ReadStatus("10") /\ pc' = "idle" /\ from' = pos /\ UNCHANGED <<cur, pos, record, recSize>>
            \/ /\ pos < Len(bytes) /\ ~HasRecord(bytes, pos)
               /\ ReadStatus("39") /\ pos' = pos + 1 /\ pc' = "idle" /\ from' = pos /\ UNCHANGED <<cur, record, recSize>>
            \/ /\ HasRecord(bytes, pos) /\ record' = CutAt(bytes, pos) /\ recSize' = Len(CutAt(bytes, pos)) /\ pc' = "idle"
               /\ from' = pos /\ pos' = GoesTo(bytes, pos) /\ ReadStatus(CutStatus(bytes, pos)) /\ UNCHANGED cur
  <1>1. org = "VARIABLE" /\ Reading
    <2>1. org = "VARIABLE" /\ (pc = "next" \/ mode \in ReadModes)
      BY DEF CobReadVariable, MayRead, ReadModes
    <2> QED BY <2>1 DEF Types, Control, Reading
  <1>2. bytes \in Seq(Cells) /\ pos \in Nat /\ cur \in 1..Len(files)
    BY DEF Types, FileTypes, PlaceTypes, bytes
  <1>3. UNCHANGED <<settings, org, split, files, mode, recOff, needsNl>>
    BY DEF CobReadVariable, settings
  <1>4. At(pos) = EOF <=> Len(bytes) <= pos
    <2>1. pos < Len(bytes) => bytes[pos + 1] \in Cells
      BY <1>2
    <2>2. EOF \notin Cells
      BY DigitsIs DEF EOF
    <2> QED BY <1>2, <2>1, <2>2 DEF At
  <1>5. At(pos) \in Lengths <=> HasRecord(bytes, pos)
    <2>1. EOF \notin Lengths
      BY DigitsIs DEF EOF, Cells
    <2> QED BY <2>1 DEF At, HasRecord
  <1>6. HasRecord(bytes, pos) => At(pos) = bytes[pos + 1]
    BY DEF At, HasRecord
  <1>7. CASE At(pos) = EOF /\ cur < Len(files) /\ cur' = cur + 1
    <2>1. EOF \notin Lengths
      BY DigitsIs DEF EOF, Cells
    <2>2. pos' = 0 /\ from' = 0 /\ pc' = "next" /\ readDone' = FALSE /\ UNCHANGED <<record, recSize, status, eof>>
      BY <1>2, <1>7, <2>1 DEF CobReadVariable
    <2> QED BY <1>1, <1>2, <1>3, <1>4, <1>7, <2>2
  <1>8. CASE At(pos) = EOF /\ ~(cur < Len(files) /\ cur' = cur + 1)
    <2>1. EOF \notin Lengths
      BY DigitsIs DEF EOF, Cells
    <2>2. ReadStatus("10") /\ pc' = "idle" /\ from' = pos /\ UNCHANGED <<cur, pos, record, recSize>>
      BY <1>8, <2>1 DEF CobReadVariable, place
    <2> QED BY <1>1, <1>2, <1>3, <2>2
  <1>9. CASE At(pos) \notin Lengths \cup {EOF}
    <2>1. ReadStatus("39") /\ pos' = pos + 1 /\ pc' = "idle" /\ from' = pos /\ UNCHANGED <<cur, record, recSize>>
      BY <1>9 DEF CobReadVariable
    <2> QED BY <1>1, <1>2, <1>3, <1>4, <1>5, <1>9, <2>1
  <1>10. CASE At(pos) \in Lengths
    <2>1. HasRecord(bytes, pos) /\ At(pos) # EOF /\ At(pos) = bytes[pos + 1]
      <3>1. EOF \notin Lengths
        BY DigitsIs DEF EOF, Cells
      <3> QED BY <1>5, <1>6, <1>10, <3>1
    <2>2. PICK data : data = SubSeq(bytes, pos + 2, Smaller(pos + 1 + Smaller(LengthIn(At(pos)), RecordMax), Len(bytes)))
      OBVIOUS
    <2>3. /\ record' = data /\ recSize' = Len(data) /\ pc' = "idle" /\ from' = pos
          /\ pos' = pos + 1 + Len(data) + Skip(LengthIn(At(pos)), data)
          /\ ReadStatus(IF LengthIn(At(pos)) \in RecordMin..RecordMax /\ (data # <<>> \/ LengthIn(At(pos)) = 0) THEN "00" ELSE "04")
          /\ UNCHANGED cur
      BY <1>10, <2>1, <2>2 DEF CobReadVariable
    <2>4. data = CutAt(bytes, pos)
      BY <2>1, <2>2 DEF CutAt
    <2>5. /\ pos' = GoesTo(bytes, pos)
          /\ ReadStatus(CutStatus(bytes, pos))
      BY <2>1, <2>3, <2>4 DEF GoesTo, CutStatus
    <2> QED BY <1>1, <1>2, <1>3, <2>1, <2>3, <2>4, <2>5
  <1> QED BY <1>7, <1>8, <1>9, <1>10

\* Where READ is when it has read over a record.
LEMMA VariableNext ==
  ASSUME NEW d \in Seq(Cells), NEW p \in Nat, org = "VARIABLE", HasRecord(d, p), p \in Starts(d) \/ Astray(d, p)
  PROVE  /\ GoesTo(d, p) \in Starts(d) \/ Astray(d, GoesTo(d, p))
         /\ Room(d, GoesTo(d, p), Len(CutAt(d, p)))
         /\ Sound(d) => p \in Starts(d) /\ Behind(d, p) <= Len(d)
  <1>1. PICK q \in Nat : q = GoesTo(d, p) /\ p < q /\ q <= Behind(d, p) /\ (Len(d) < Behind(d, p) => Len(d) <= q)
    BY CutIs
  <1>2. PICK n \in Nat : n = Len(CutAt(d, p)) /\ p + 1 <= q - n
    BY <1>1, CutIs
  <1>3. p < Len(d)
    BY DEF HasRecord
  <1>4. StartsAre(d, Starts(d))
    BY StartsIs
  <1>5. CASE p \in Starts(d)
    <2>1. CASE Behind(d, p) <= Len(d)
      <3>1. Behind(d, p) \in Starts(d)
        BY <1>4, <1>5, <2>1 DEF StartsAre
      <3>2. q = Behind(d, p)
        <4>1. VariableAt(d, p) = [record |-> CutAt(d, p), pos |-> GoesTo(d, p), status |-> CutStatus(d, p)]
          BY <2>1, CutIs
        <4>2. VariableAt(d, p).pos = Behind(d, p)
          BY DEF VariableAt
        <4> QED BY <1>1, <4>1, <4>2
      <3> QED BY <1>1, <1>2, <1>3, <1>5, <2>1, <3>1, <3>2 DEF Room
    <2>2. CASE ~(Behind(d, p) <= Len(d))
      <3>1. Behind(d, p) \in Nat
        BY BehindIs
      <3>2. Len(d) < Behind(d, p) /\ Len(d) <= q
        BY <1>1, <2>2, <3>1
      <3>3. Astray(d, q)
        BY <1>1, <1>3, <1>5, <3>2 DEF Astray
      <3>4. ~Sound(d)
        BY <1>3, <1>5, <2>2, SoundStarts
      <3> QED BY <1>1, <1>2, <1>3, <1>5, <3>3, <3>4 DEF Room
    <2> QED BY <2>1, <2>2
  <1>6. CASE p \notin Starts(d)
    <2>1. PICK b \in Starts(d) : b < Len(d) /\ b < p /\ (~HasRecord(d, b) \/ (Len(d) < Behind(d, b) /\ Len(d) <= p))
      BY <1>6 DEF Astray
    <2>2. b \in Nat /\ ~HasRecord(d, b)
      BY <1>3, <1>4, <2>1 DEF StartsAre
    <2>3. b < q /\ b + 1 <= q - n
      BY <1>1, <1>2, <2>1, <2>2
    <2>4. ~Sound(d)
      BY <2>1, <2>2, SoundStarts
    <2> QED BY <1>1, <1>2, <2>1, <2>2, <2>3, <2>4 DEF Astray, Room
  <1> QED BY <1>5, <1>6

\* READ has delivered a variable-length record.
LEMMA RecordKeeps ==
  ASSUME IInv, org = "VARIABLE", Reading, HasRecord(bytes, pos), record' = CutAt(bytes, pos), recSize' = Len(CutAt(bytes, pos)),
         pc' = "idle", from' = pos, pos' = GoesTo(bytes, pos), ReadStatus(CutStatus(bytes, pos)),
         UNCHANGED <<settings, org, split, files, cur, mode, recOff, needsNl>>
  PROVE  /\ IInv' /\ readDone' = TRUE
         /\ Sound(bytes) => RecordAt(bytes, pos) = [record |-> record', pos |-> pos', status |-> status']
  <1>1. PICK d \in Seq(Cells), p \in Nat : d = bytes /\ p = pos
    BY DEF IInv, Types, FileTypes, PlaceTypes, bytes
  <1>2. UNCHANGED bytes
    BY DEF bytes
  <1>3. PICK q \in Nat, cut \in Seq(Cells) : q = GoesTo(d, p) /\ cut = CutAt(d, p) /\ Len(cut) \in 0..RecordMax
    BY <1>1, CutIs
  <1>4. PICK n \in Nat : n = Len(cut) /\ n <= RecordMax /\ n \in 0..9
    BY <1>3, SizesAssumption
  <1>5. record' = cut /\ recSize' = n /\ pos' = q /\ from' = p
    BY <1>1, <1>3, <1>4
  <1>6. status' = CutStatus(d, p) /\ CutStatus(d, p) \in {"00", "04"} /\ readDone' = TRUE /\ eof' = FALSE
    <2>1. CutStatus(d, p) \in {"00", "04"}
      BY DEF CutStatus
    <2>2. CutStatus(d, p) \in Good
      BY <2>1 DEF Good
    <2>3. ReadStatus(CutStatus(d, p))
      BY <1>1
    <2> QED BY <2>1, <2>2, <2>3, ReadStatusIs
  <1>7. p \in Starts(d) \/ Astray(d, p)
    BY <1>1 DEF IInv, VariableInv
  <1>8. /\ q \in Starts(d) \/ Astray(d, q)
        /\ Room(d, q, n)
        /\ Sound(d) => p \in Starts(d) /\ Behind(d, p) <= Len(d)
    BY <1>1, <1>3, <1>4, <1>7, VariableNext
  <1>9. Sound(d) => RecordAt(d, p) = [record |-> record', pos |-> pos', status |-> status']
    <2>1. Sound(d) => VariableAt(d, p) = [record |-> cut, pos |-> q, status |-> CutStatus(d, p)]
      BY <1>1, <1>3, <1>8, CutIs
    <2>2. RecordAt(d, p) = VariableAt(d, p)
      BY DEF RecordAt
    <2> QED BY <1>5, <1>6, <2>1, <2>2
  <1>10. /\ Starts(d)' = Starts(d) /\ (Sound(d)' <=> Sound(d)) /\ (Astray(d, q)' <=> Astray(d, q))
         /\ (Room(d, q, n)' <=> Room(d, q, n)) /\ RecordAt(d, p)' = RecordAt(d, p)
    BY Primes
  <1>11. Types'
    <2>1. FileTypes' /\ PlaceTypes' /\ RecordTypes'
      <3>1. Len(record') <= RecordMax
        BY <1>4, <1>5
      <3> QED BY <1>4, <1>5, <3>1 DEF IInv, Types, FileTypes, PlaceTypes, RecordTypes
    <2>2. ModeTypes'
      BY <1>6, CodesIs DEF IInv, Types, ModeTypes
    <2>3. Control'
      BY DEF IInv, Types, Control, Reading, ReadModes, WriteModes
    <2> QED BY <2>1, <2>2, <2>3 DEF Types
  <1>12. LineInv'
    BY DEF LineInv
  <1>13. VariableInv'
    BY <1>1, <1>2, <1>5, <1>8, <1>10 DEF VariableInv
  <1>14. DoneInv'
    <2>1. recSize' = Len(record')
      BY <1>4, <1>5
    <2>2. org' # "LINE"
      OBVIOUS
    <2>3. Room(bytes, pos, recSize)'
      BY <1>1, <1>2, <1>5, <1>8, <1>10
    <2>4. p \in 0..Len(d) - 1
      BY <1>1 DEF HasRecord
    <2> QED BY <1>1, <1>2, <1>5, <1>8, <1>9, <1>10, <2>1, <2>2, <2>3, <2>4 DEF DoneInv
  <1> QED BY <1>1, <1>6, <1>9, <1>11, <1>12, <1>13, <1>14 DEF IInv

LEMMA VariableKeeps ==
  ASSUME IInv, CobReadVariable
  PROVE  /\ IInv'
         /\ pc' = "idle" /\ readDone' /\ Sound(bytes) =>
              RecordAt(bytes, from') = [record |-> record', pos |-> pos', status |-> status']
  <1>1. /\ org = "VARIABLE" /\ Reading /\ bytes \in Seq(Cells) /\ pos \in Nat /\ cur \in 1..Len(files)
        /\ UNCHANGED <<settings, org, split, files, mode, recOff, needsNl>>
    BY VariableWays DEF IInv
  <1>2. CASE /\ Len(bytes) <= pos /\ cur < Len(files) /\ cur' = cur + 1 /\ pos' = 0 /\ from' = 0 /\ pc' = "next"
             /\ readDone' = FALSE /\ UNCHANGED <<record, recSize, status, eof>>
    <2>1. files' \in Seq(Seq(Cells)) /\ cur' \in 1..Len(files') /\ files'[cur'] \in Seq(Cells)
      BY <1>1, <1>2 DEF IInv, Types, FileTypes
    <2>2. Types'
      <3>1. FileTypes' /\ PlaceTypes' /\ RecordTypes'
        BY <1>1, <1>2, <2>1 DEF IInv, Types, FileTypes, PlaceTypes, RecordTypes
      <3>2. ModeTypes'
        BY <1>1, <1>2 DEF IInv, Types, ModeTypes
      <3>3. Control'
        BY <1>1, <1>2 DEF IInv, Types, Control, Reading, ReadModes, WriteModes
      <3> QED BY <3>1, <3>2, <3>3 DEF Types
    <2>3. PICK d \in Seq(Cells) : d = bytes'
      BY <2>1 DEF bytes
    <2>4. 0 \in Starts(d) /\ Starts(d)' = Starts(d)
      <3>1. Starts(d)' = Starts(d)
        BY <1>1, Primes
      <3> QED BY <1>1, <3>1, StartsIs DEF StartsAre
    <2>5. LineInv' /\ VariableInv'
      BY <1>1, <1>2, <2>3, <2>4 DEF LineInv, VariableInv
    <2> QED BY <1>2, <2>2, <2>5, NotDone DEF IInv
  <1>3. CASE ReadStatus("10") /\ pc' = "idle" /\ from' = pos /\ UNCHANGED <<cur, pos, record, recSize>>
    <2>1. status' = "10" /\ readDone' = FALSE /\ eof' \in BOOLEAN /\ "10" \in Codes
      <3>1. "10" \notin Good
        BY DEF Good
      <3> QED BY <1>3, <3>1, ReadStatusIs, CodesIs DEF IInv, Types, ModeTypes
    <2>2. UNCHANGED bytes
      BY <1>1, <1>3 DEF bytes
    <2>3. Types'
      <3>1. FileTypes' /\ PlaceTypes' /\ RecordTypes'
        BY <1>1, <1>3 DEF IInv, Types, FileTypes, PlaceTypes, RecordTypes
      <3>2. ModeTypes'
        BY <1>1, <1>3, <2>1 DEF IInv, Types, ModeTypes
      <3>3. Control'
        BY <1>1, <1>3, <2>1 DEF IInv, Types, Control, Reading, ReadModes, WriteModes
      <3> QED BY <3>1, <3>2, <3>3 DEF Types
    <2>4. PICK d, p : d = bytes /\ p = pos
      OBVIOUS
    <2>5. Starts(d)' = Starts(d) /\ (Astray(d, p)' <=> Astray(d, p))
      BY <1>1, Primes
    <2>6. LineInv' /\ VariableInv'
      BY <1>1, <1>3, <2>2, <2>4, <2>5 DEF IInv, LineInv, VariableInv
    <2> QED BY <2>1, <2>3, <2>6, NotDone DEF IInv
  <1>4. CASE /\ pos < Len(bytes) /\ ~HasRecord(bytes, pos)
             /\ ReadStatus("39") /\ pos' = pos + 1 /\ pc' = "idle" /\ from' = pos /\ UNCHANGED <<cur, record, recSize>>
    <2>1. status' = "39" /\ readDone' = FALSE /\ eof' \in BOOLEAN /\ "39" \in Codes
      <3>1. "39" \notin Good
        BY DEF Good
      <3> QED BY <1>4, <3>1, ReadStatusIs, CodesIs DEF IInv, Types, ModeTypes
    <2>2. UNCHANGED bytes
      BY <1>1, <1>4 DEF bytes
    <2>3. Types'
      <3>1. FileTypes' /\ PlaceTypes' /\ RecordTypes'
        BY <1>1, <1>4 DEF IInv, Types, FileTypes, PlaceTypes, RecordTypes
      <3>2. ModeTypes'
        BY <1>1, <1>4, <2>1 DEF IInv, Types, ModeTypes
      <3>3. Control'
        BY <1>1, <1>4, <2>1 DEF IInv, Types, Control, Reading, ReadModes, WriteModes
      <3> QED BY <3>1, <3>2, <3>3 DEF Types
    <2>4. PICK d \in Seq(Cells), p \in Nat : d = bytes /\ p = pos
      BY <1>1
    <2>5. PICK q \in Nat : q = p + 1
      OBVIOUS
    <2>6. Starts(d)' = Starts(d) /\ (Astray(d, q)' <=> Astray(d, q))
      BY <1>1, Primes
    <2>7. Astray(d, q)
      <3>1. StartsAre(d, Starts(d))
        BY <1>1, StartsIs
      <3>2. CASE p \in Starts(d)
        BY <1>4, <2>4, <2>5, <3>2 DEF Astray
      <3>3. CASE Astray(d, p)
        <4>1. PICK b \in Starts(d) : b < Len(d) /\ b < p /\ (~HasRecord(d, b) \/ (Len(d) < Behind(d, b) /\ Len(d) <= p))
          BY <3>3 DEF Astray
        <4>2. b \in Nat
          BY <3>1 DEF StartsAre
        <4>3. b < q /\ ~HasRecord(d, b)
          BY <1>4, <2>4, <2>5, <4>1, <4>2
        <4> QED BY <4>1, <4>3 DEF Astray
      <3> QED BY <1>1, <2>4, <3>2, <3>3 DEF IInv, VariableInv
    <2>8. LineInv' /\ VariableInv'
      BY <1>1, <1>4, <2>2, <2>4, <2>5, <2>6, <2>7 DEF LineInv, VariableInv
    <2> QED BY <2>1, <2>3, <2>8, NotDone DEF IInv
  <1>5. CASE /\ HasRecord(bytes, pos) /\ record' = CutAt(bytes, pos) /\ recSize' = Len(CutAt(bytes, pos)) /\ pc' = "idle"
             /\ from' = pos /\ pos' = GoesTo(bytes, pos) /\ ReadStatus(CutStatus(bytes, pos)) /\ UNCHANGED cur
    <2>1. /\ IInv' /\ readDone' = TRUE
          /\ Sound(bytes) => RecordAt(bytes, pos) = [record |-> record', pos |-> pos', status |-> status']
      BY <1>1, <1>5, RecordKeeps
    <2> QED BY <1>5, <2>1
  <1> QED BY <1>2, <1>3, <1>4, <1>5, VariableWays DEF IInv

-----------------------------------------------------------------------------
(* REWRITE of a line. *)

LEMMA LineEndHas ==
  ASSUME NEW d \in Seq(Cells), NEW p \in Nat, p <= Len(d)
  PROVE  /\ LineEnd(d, p) \in Nat /\ p < LineEnd(d, p) /\ LineEnd(d, p) <= Len(d) + 1
         /\ LineEnd(d, p) <= Len(d) => d[LineEnd(d, p)] = "LF"
         /\ \A k \in p + 1..LineEnd(d, p) - 1 : d[k] # "LF"
  <1>1. PICK S \in SUBSET Nat : S = {k \in p + 1..Len(d) : d[k] = "LF"} \cup {Len(d) + 1}
    <2>1. {k \in p + 1..Len(d) : d[k] = "LF"} \subseteq Nat
      OBVIOUS
    <2>2. Len(d) + 1 \in Nat
      OBVIOUS
    <2> QED BY <2>1, <2>2
  <1>2. PICK e \in S : \A k \in S : e <= k
    BY <1>1, LeastOf
  <1>3. LineEnd(d, p) = e
    BY <1>1, <1>2, MinIs DEF LineEnd
  <1>4. e \in Nat /\ p < e /\ e <= Len(d) + 1 /\ (e <= Len(d) => d[e] = "LF")
    BY <1>1
  <1>5. ASSUME NEW k \in p + 1..e - 1 PROVE d[k] # "LF"
    <2>1. k \notin S
      BY <1>2, <1>4
    <2>2. k \in p + 1..Len(d)
      BY <1>4
    <2> QED BY <1>1, <2>1, <2>2
  <1> QED BY <1>3, <1>4, <1>5

LEMMA LineLenIs ==
  ASSUME NEW d \in Seq(Cells), NEW p \in Nat, p <= Len(d), NEW e \in Nat, e = LineEnd(d, p)
  PROVE  /\ LineLen(d, p) \in Nat
         /\ LineLen(d, p) = e - p - 1 \/ (LineLen(d, p) = e - p - 2 /\ e <= Len(d) /\ e > p + 1 /\ d[e - 1] = "CR")
         /\ (e <= Len(d) /\ e > p + 1 /\ d[e - 1] = "CR") => LineLen(d, p) = e - p - 2
         /\ p + LineLen(d, p) <= Len(d)
  <1>1. p < e /\ e <= Len(d) + 1
    BY LineEndHas
  <1>2. CASE e <= Len(d) /\ e > p + 1 /\ d[e - 1] = "CR"
    <2>1. LineLen(d, p) = e - p - 2
      BY <1>2 DEF LineLen
    <2> QED BY <1>1, <1>2, <2>1
  <1>3. CASE ~(e <= Len(d) /\ e > p + 1 /\ d[e - 1] = "CR")
    <2>1. LineLen(d, p) = e - p - 1
      BY <1>3 DEF LineLen
    <2> QED BY <1>1, <1>3, <2>1
  <1> QED BY <1>2, <1>3

\* A line depends on its cells only.
LEMMA LineAtSame ==
  ASSUME NEW d \in Seq(Cells), NEW e \in Seq(Cells), Len(e) = Len(d), NEW p \in Nat, p <= Len(d),
         \A k \in p + 1..Len(d) : k <= LineEnd(d, p) => e[k] = d[k]
  PROVE  LineAt(e, p) = LineAt(d, p)
  <1>1. PICK l \in Nat : l = LineEnd(d, p) /\ p < l /\ l <= Len(d) + 1 /\ (l <= Len(d) => d[l] = "LF") /\ \A k \in p + 1..l - 1 : d[k] # "LF"
    BY LineEndHas
  <1>2. \A k \in p + 1..Len(d) : k <= l => e[k] = d[k]
    BY <1>1
  <1>3. LineEnd(e, p) = l
    <2>1. l <= Len(e) => e[l] = "LF"
      BY <1>1, <1>2
    <2>2. ASSUME NEW k \in p + 1..l - 1 PROVE e[k] # "LF"
      <3>1. k \in p + 1..Len(d) /\ k <= l
        BY <1>1
      <3> QED BY <1>1, <1>2, <3>1
    <2> QED BY <1>1, <2>1, <2>2, LineEndIs
  <1>4. LineLen(e, p) = LineLen(d, p)
    <2>1. l <= Len(d) /\ l > p + 1 => e[l - 1] = d[l - 1]
      <3> SUFFICES ASSUME l <= Len(d), l > p + 1 PROVE e[l - 1] = d[l - 1]
        OBVIOUS
      <3>1. l - 1 \in p + 1..Len(d) /\ l - 1 <= l
        OBVIOUS
      <3> QED BY <1>2, <3>1
    <2> QED BY <1>1, <1>3, <2>1 DEF LineLen
  <1>5. PICK n \in Nat : n = LineLen(d, p) /\ p + n <= Len(d) /\ p + n < l
    BY <1>1, LineLenIs
  <1>6. PICK m \in Nat : m = Smaller(n, RecordMax) /\ m <= n
    <2>1. RecordMax \in Nat
      BY SizesAssumption
    <2>2. Smaller(n, RecordMax) = IF n <= RecordMax THEN n ELSE RecordMax
      BY <2>1, SmallerIs
    <2> QED BY <2>1, <2>2
  <1>7. SubSeq(e, p + 1, p + m) = SubSeq(d, p + 1, p + m)
    <2>1. PICK q \in Nat : q = p + m /\ p <= q /\ q <= Len(d) /\ q < l
      BY <1>5, <1>6
    <2>2. /\ SubSeq(d, p + 1, q) \in Seq(Cells) /\ Len(SubSeq(d, p + 1, q)) = q - p
          /\ \A k \in 1..q - p : SubSeq(d, p + 1, q)[k] = d[p + k]
      BY <2>1, SubSeqIs
    <2>3. /\ SubSeq(e, p + 1, q) \in Seq(Cells) /\ Len(SubSeq(e, p + 1, q)) = q - p
          /\ \A k \in 1..q - p : SubSeq(e, p + 1, q)[k] = e[p + k]
      BY <2>1, SubSeqIs
    <2>4. ASSUME NEW k \in 1..q - p PROVE e[p + k] = d[p + k]
      <3>1. p + k \in p + 1..Len(d) /\ p + k <= l
        BY <1>1, <2>1
      <3> QED BY <1>2, <3>1
    <2>5. PICK s, t : s = SubSeq(e, p + 1, q) /\ t = SubSeq(d, p + 1, q)
      OBVIOUS
    <2>6. s \in Seq(Cells) /\ t \in Seq(Cells) /\ Len(s) = Len(t) /\ \A k \in 1..Len(s) : s[k] = t[k]
      <3>1. s \in Seq(Cells) /\ Len(s) = q - p /\ \A k \in 1..q - p : s[k] = e[p + k]
        BY <2>3, <2>5
      <3>2. t \in Seq(Cells) /\ Len(t) = q - p /\ \A k \in 1..q - p : t[k] = d[p + k]
        BY <2>2, <2>5
      <3>3. ASSUME NEW k \in 1..Len(s) PROVE s[k] = t[k]
        <4>1. k \in 1..q - p
          BY <3>1
        <4> QED BY <2>4, <3>1, <3>2, <4>1
      <3> QED BY <3>1, <3>2, <3>3
    <2>7. s = t
      BY <2>6, SameSeq
    <2> QED BY <2>1, <2>5, <2>7
  <1> QED BY <1>1, <1>3, <1>4, <1>5, <1>6, <1>7 DEF LineAt

\* e is d with the text over the cells from f + 1 to p - 1.
LineOver(d, f, p, text, e) ==
  /\ Len(e) = Len(d) /\ f < p /\ p <= Len(d)
  /\ \A k \in f + 1..p - 1 : d[k] # "LF" /\ e[k] = text[k - f] /\ e[k] \notin {"LF", "CR"}
  /\ \A k \in 1..Len(d) : (k <= f \/ p <= k) => e[k] = d[k]

LEMMA LineOverIs ==
  ASSUME NEW d \in Seq(Cells), NEW f \in Nat, NEW p \in Nat, f < p, p <= Len(d), \A k \in f + 1..p - 1 : d[k] # "LF",
         NEW text \in Seq(Cells), Len(text) = p - f - 1, \A k \in 1..Len(text) : text[k] \notin {"LF", "CR"}
  PROVE  Put(d, f, text) \in Seq(Cells) /\ LineOver(d, f, p, text, Put(d, f, text))
  <1>1. PICK e : e = Put(d, f, text)
    OBVIOUS
  <1>2. /\ e \in Seq(Cells) /\ Len(e) = (IF Len(d) >= f + Len(text) THEN Len(d) ELSE f + Len(text))
        /\ \A k \in 1..Len(e) : e[k] = IF k \in f + 1..f + Len(text) THEN text[k - f]
                                        ELSE IF k <= Len(d) THEN d[k] ELSE "NUL"
    BY <1>1, PutIs
  <1>3. f + Len(text) = p - 1 /\ Len(e) = Len(d)
    BY <1>2
  <1>4. ASSUME NEW k \in f + 1..p - 1 PROVE e[k] = text[k - f] /\ e[k] \notin {"LF", "CR"}
    <2>1. k \in 1..Len(e) /\ k \in f + 1..f + Len(text) /\ k - f \in 1..Len(text)
      BY <1>3
    <2> QED BY <1>2, <2>1
  <1>5. ASSUME NEW k \in 1..Len(d), k <= f \/ p <= k PROVE e[k] = d[k]
    <2>1. k \notin f + 1..f + Len(text) /\ k \in 1..Len(e)
      BY <1>3, <1>5
    <2> QED BY <1>2, <2>1
  <1> QED BY <1>1, <1>2, <1>3, <1>4, <1>5 DEF LineOver

\* The lines stay where they are.
LEMMA OverLines ==
  ASSUME NEW d \in Seq(Cells), NEW e \in Seq(Cells), NEW f \in Nat, NEW p \in Nat, NEW text, LineOver(d, f, p, text, e)
  PROVE  /\ \A k \in 1..Len(d) : (e[k] = "LF" <=> d[k] = "LF") /\ (e[k] = "CR" => d[k] = "CR")
         /\ \A x \in 0..Len(d) : LineEnd(e, x) = LineEnd(d, x)
         /\ \A x \in 0..Len(d) : LineStart(d, x) => LineStart(e, x)
         /\ Ended(d) => Ended(e)
  <1>1. ASSUME NEW k \in 1..Len(d) PROVE (e[k] = "LF" <=> d[k] = "LF") /\ (e[k] = "CR" => d[k] = "CR")
    <2>1. CASE k <= f \/ p <= k
      BY <2>1 DEF LineOver
    <2>2. CASE k \in f + 1..p - 1
      BY <2>2 DEF LineOver
    <2> QED BY <2>1, <2>2
  <1>2. Len(e) = Len(d) /\ f < p /\ p <= Len(d)
    BY DEF LineOver
  <1>3. ASSUME NEW x \in 0..Len(d) PROVE LineEnd(e, x) = LineEnd(d, x)
    <2>0. x \in Nat /\ x <= Len(d)
      OBVIOUS
    <2>1. PICK l \in Nat : l = LineEnd(d, x) /\ x < l /\ l <= Len(d) + 1 /\ (l <= Len(d) => d[l] = "LF") /\ \A k \in x + 1..l - 1 : d[k] # "LF"
      BY <2>0, LineEndHas
    <2>2. l <= Len(e) => e[l] = "LF"
      BY <1>1, <1>2, <2>1
    <2>3. ASSUME NEW k \in x + 1..l - 1 PROVE e[k] # "LF"
      <3>1. k \in 1..Len(d)
        BY <2>1
      <3> QED BY <1>1, <2>1, <3>1
    <2> QED BY <1>2, <2>1, <2>2, <2>3, LineEndIs
  <1>4. ASSUME NEW x \in 0..Len(d), LineStart(d, x) PROVE LineStart(e, x)
    <2>1. CASE x = 0
      BY <2>1 DEF LineStart
    <2>2. CASE x # 0 /\ d[x] = "LF"
      <3>1. x \in 1..Len(d)
        BY <2>2
      <3> QED BY <1>1, <2>2, <3>1 DEF LineStart
    <2>3. CASE split /\ RecordMax <= x /\ x < Len(d) /\ Plain(d, x - RecordMax, x + 1)
      <3>1. RecordMax \in 1..9
        BY SizesAssumption
      <3>2. ASSUME NEW k \in (x - RecordMax) + 1..x + 1
            PROVE  e[k] # "LF" /\ ~(e[k] = "CR" /\ k < Len(e) /\ e[k + 1] = "LF")
        <4>1. k \in 1..Len(d)
          BY <2>3, <3>1
        <4>2. d[k] # "LF" /\ ~(d[k] = "CR" /\ k < Len(d) /\ d[k + 1] = "LF")
          BY <2>3 DEF Plain
        <4>3. k < Len(d) => k + 1 \in 1..Len(d)
          BY <4>1
        <4> QED BY <1>1, <1>2, <4>1, <4>2, <4>3
      <3>3. Plain(e, x - RecordMax, x + 1)
        BY <3>2 DEF Plain
      <3> QED BY <1>2, <2>3, <3>3 DEF LineStart
    <2> QED BY <1>4, <2>1, <2>2, <2>3 DEF LineStart
  <1>5. ASSUME Ended(d) PROVE Ended(e)
    <2>1. Len(d) \in 1..Len(d) /\ e[Len(d)] = d[Len(d)]
      <3>1. Len(d) \in 1..Len(d) /\ p <= Len(d)
        BY <1>2
      <3> QED BY <3>1 DEF LineOver
    <2>2. d # <<>> /\ e # <<>>
      BY <1>2, <2>1
    <2>3. CASE Len(d) < RecordMax
      BY <1>2, <1>5, <2>1, <2>2, <2>3 DEF Ended
    <2>4. CASE ~(Len(d) < RecordMax)
      <3>1. PICK k \in 0..RecordMax - 1 : d[Len(d) - k] = "LF"
        BY <1>5, <2>2, <2>4 DEF Ended
      <3>2. Len(d) - k \in 1..Len(d)
        <4>1. RecordMax \in 1..9
          BY SizesAssumption
        <4> QED BY <2>4, <4>1
      <3>3. e[Len(d) - k] = "LF"
        BY <1>1, <3>1, <3>2
      <3> QED BY <1>2, <1>5, <2>1, <2>2, <3>3 DEF Ended
    <2> QED BY <2>3, <2>4
  <1> QED BY <1>1, <1>3, <1>4, <1>5

LEMMA PartIs ==
  ASSUME NEW d \in Seq(Cells), NEW p \in Nat, NEW n \in Nat, p + n <= Len(d)
  PROVE  \E s \in Seq(Cells) : s = SubSeq(d, p + 1, p + n) /\ Len(s) = n /\ \A k \in 1..n : s[k] = d[p + k]
  <1>1. PICK q \in Nat : q = p + n
    OBVIOUS
  <1>2. p <= q /\ q <= Len(d) /\ q - p = n
    BY <1>1
  <1>3. /\ SubSeq(d, p + 1, q) \in Seq(Cells) /\ Len(SubSeq(d, p + 1, q)) = q - p
        /\ \A k \in 1..q - p : SubSeq(d, p + 1, q)[k] = d[p + k]
    BY <1>2, SubSeqIs
  <1> QED BY <1>1, <1>2, <1>3

LEMMA FrontIs ==
  ASSUME NEW d \in Seq(Cells), NEW n \in Nat, n <= Len(d)
  PROVE  \E s \in Seq(Cells) : s = SubSeq(d, 1, n) /\ Len(s) = n /\ \A k \in 1..n : s[k] = d[k]
  <1>1. 0 + n = n /\ 0 + 1 = 1 /\ \A k \in 1..n : 0 + k = k
    OBVIOUS
  <1>3. 0 \in Nat /\ 0 + n <= Len(d)
    OBVIOUS
  <1>4. \E s \in Seq(Cells) : s = SubSeq(d, 0 + 1, 0 + n) /\ Len(s) = n /\ \A k \in 1..n : s[k] = d[0 + k]
    BY <1>3, PartIs
  <1>2. PICK s \in Seq(Cells) : s = SubSeq(d, 0 + 1, 0 + n) /\ Len(s) = n /\ \A k \in 1..n : s[k] = d[0 + k]
    BY <1>4
  <1> QED BY <1>1, <1>2

LEMMA SamePart ==
  ASSUME NEW d \in Seq(Cells), NEW e \in Seq(Cells), NEW p \in Nat, NEW n \in Nat, p + n <= Len(d), p + n <= Len(e),
         \A k \in 1..n : d[p + k] = e[p + k]
  PROVE  SubSeq(d, p + 1, p + n) = SubSeq(e, p + 1, p + n)
  <1>1. PICK s \in Seq(Cells) : s = SubSeq(d, p + 1, p + n) /\ Len(s) = n /\ \A k \in 1..n : s[k] = d[p + k]
    BY PartIs
  <1>2. PICK t \in Seq(Cells) : t = SubSeq(e, p + 1, p + n) /\ Len(t) = n /\ \A k \in 1..n : t[k] = e[p + k]
    BY PartIs
  <1>3. s = t
    <2>1. Len(s) = Len(t)
      BY <1>1, <1>2
    <2>2. ASSUME NEW k \in 1..Len(s) PROVE s[k] = t[k]
      <3>1. k \in 1..n
        BY <1>1
      <3> QED BY <1>1, <1>2, <3>1
    <2> QED BY <2>1, <2>2, SameSeq
  <1> QED BY <1>1, <1>2, <1>3

\* The part that is compared, as one fact.
AgreeAfter(d, e, p, n) == p + n <= Len(d) /\ p + n <= Len(e) /\ \A k \in 1..n : d[p + k] = e[p + k]

LEMMA AgreeSame ==
  ASSUME NEW d \in Seq(Cells), NEW e \in Seq(Cells), NEW p \in Nat, NEW n \in Nat, AgreeAfter(d, e, p, n)
  PROVE  SubSeq(d, p + 1, p + n) = SubSeq(e, p + 1, p + n)
  BY SamePart DEF AgreeAfter

LEMMA AgreeRecord ==
  ASSUME NEW d \in Seq(Cells), NEW e \in Seq(Cells), NEW x \in Nat, NEW m \in Nat, AgreeAfter(d, e, x + 1, m)
  PROVE  SubSeq(d, x + 2, x + 1 + m) = SubSeq(e, x + 2, x + 1 + m)
  <1>1. PICK y \in Nat : y = x + 1
    OBVIOUS
  <1>2. AgreeAfter(d, e, y, m)
    BY <1>1
  <1>3. SubSeq(d, y + 1, y + m) = SubSeq(e, y + 1, y + m)
    BY <1>2, AgreeSame
  <1>4. y + 1 = x + 2 /\ y + m = x + 1 + m
    BY <1>1
  <1> QED BY <1>3, <1>4

\* Over the line at f there is a text that has n cells of a record.
Overs(d, e, f, p, text, n) ==
  /\ LineOver(d, f, p, text, e) /\ Len(text) = p - f - 1 /\ n > 0 /\ n <= p - f - 1 /\ n <= RecordMax
  /\ p = Smaller(LineEnd(d, f), Len(d))

\* The text is the first n cells of rec, and spaces for what else there is of either.
Holds(text, rec, n) ==
  /\ n <= Len(rec) /\ n <= Len(text) /\ Len(rec) <= RecordMax
  /\ \A k \in 1..n : text[k] = rec[k]
  /\ \A k \in n + 1..Len(text) : text[k] = " "
  /\ \A k \in n + 1..Len(rec) : rec[k] = " "

\* READ finds the cells up to the end of the line, as far as they go into a record.
FindsUpto(d, e, f, r) ==
  LET l == LineEnd(d, f) IN
  /\ l \in Nat /\ f < l /\ l <= Len(d) + 1 /\ (l <= Len(d) <=> d[l] = "LF" /\ l <= Len(d))
  /\ Len(r) = IF l - f - 1 <= RecordMax THEN l - f - 1 ELSE RecordMax
  /\ \A k \in 1..Len(r) : r[k] = e[f + k]

\* The new text is what READ finds.
LEMMA OverRead ==
  ASSUME NEW d \in Seq(Cells), NEW e \in Seq(Cells), NEW f \in Nat, NEW p \in Nat, NEW text \in Seq(Cells), NEW n \in Nat,
         Overs(d, e, f, p, text, n)
  PROVE  \E r \in Seq(Cells) : r = LineAt(e, f).record /\ FindsUpto(d, e, f, r)
  <1>0. /\ LineOver(d, f, p, text, e) /\ Len(text) = p - f - 1 /\ n > 0 /\ n <= p - f - 1 /\ n <= RecordMax
        /\ p = Smaller(LineEnd(d, f), Len(d))
    BY DEF Overs
  <1> USE <1>0
  <1>1. Len(e) = Len(d) /\ f < p /\ p <= Len(d) /\ f + 1 < p /\ RecordMax \in 1..9 /\ f \in 0..Len(d)
    BY SizesAssumption DEF LineOver
  <1>2. PICK l \in Nat : l = LineEnd(d, f) /\ f < l /\ l <= Len(d) + 1
    BY <1>1, LineEndHas, SMTT(30)
  <1>3. LineEnd(e, f) = l
    BY <1>1, <1>2, OverLines
  <1>4. p = l \/ (p = Len(d) /\ l = Len(d) + 1)
    <2>1. p = IF l <= Len(d) THEN l ELSE Len(d)
      BY <1>2, SmallerIs
    <2>2. CASE l <= Len(d)
      BY <2>1, <2>2
    <2>3. CASE ~(l <= Len(d))
      <3>1. l = Len(d) + 1
        BY <1>2, <2>3
      <3> QED BY <2>1, <2>3, <3>1
    <2> QED BY <2>2, <2>3
  <1>15. f <= Len(e) /\ l = LineEnd(e, f) /\ p <= l
    BY <1>1, <1>3, <1>4
  <1>5. PICK h \in Nat : /\ h = LineLen(e, f) /\ f + h <= Len(e)
                         /\ h = l - f - 1 \/ (h = l - f - 2 /\ l <= Len(e) /\ l > f + 1 /\ e[l - 1] = "CR")
    <2>1. f \in Nat /\ f <= Len(e) /\ l \in Nat /\ l = LineEnd(e, f)
      BY <1>1, <1>15
    <2>2. PICK h \in Nat : h = LineLen(e, f)
      BY <2>1, LineLenIs
    <2>3. f + h <= Len(e)
      BY <2>1, <2>2, LineLenIs
    <2>4. CASE l <= Len(e) /\ l > f + 1 /\ e[l - 1] = "CR"
      <3>1. h = l - f - 2
        BY <2>1, <2>2, <2>4, LineLenIs
      <3> QED BY <2>2, <2>3, <2>4, <3>1
    <2>5. CASE ~(l <= Len(e) /\ l > f + 1 /\ e[l - 1] = "CR")
      <3>1. h = l - f - 1
        BY <2>1, <2>2, <2>5 DEF LineLen
      <3> QED BY <2>2, <2>3, <3>1
    <2> QED BY <2>4, <2>5
  <1>6. h = l - f - 1
    <2>2. ~(l <= Len(e) /\ l > f + 1 /\ e[l - 1] = "CR")
      <3> SUFFICES ASSUME l <= Len(e), l > f + 1, e[l - 1] = "CR" PROVE FALSE
        OBVIOUS
      <3>1. l = p /\ l - 1 \in f + 1..p - 1
        BY <1>1, <1>2, <1>4, SMTT(30)
      <3> QED BY <3>1 DEF LineOver
    <2> QED BY <1>5, <2>2
  <1>7. PICK m \in Nat : m = Smaller(h, RecordMax) /\ m <= h /\ m = IF h <= RecordMax THEN h ELSE RecordMax
    <2>1. RecordMax \in Nat
      BY <1>1
    <2>2. Smaller(h, RecordMax) = IF h <= RecordMax THEN h ELSE RecordMax
      BY <2>1, SmallerIs
    <2> QED BY <2>1, <2>2
  <1>8. f + m <= Len(e)
    BY <1>5, <1>7, SMTT(30)
  <1>9. PICK rec \in Seq(Cells) : rec = SubSeq(e, f + 1, f + m) /\ Len(rec) = m /\ \A k \in 1..m : rec[k] = e[f + k]
    <2>1. PICK q \in Nat : q = f + m
      OBVIOUS
    <2>2. f <= q /\ q <= Len(e) /\ q - f = m
      BY <1>8, <2>1
    <2>3. /\ SubSeq(e, f + 1, q) \in Seq(Cells) /\ Len(SubSeq(e, f + 1, q)) = q - f
          /\ \A k \in 1..q - f : SubSeq(e, f + 1, q)[k] = e[f + k]
      BY <2>2, SubSeqIs
    <2> QED BY <2>1, <2>2, <2>3
  <1>10. LineAt(e, f).record = rec
    BY <1>5, <1>7, <1>9 DEF LineAt
  <1>11. l <= Len(d) <=> d[l] = "LF" /\ l <= Len(d)
    <2>1. f <= Len(d)
      BY <1>1
    <2>2. LineEnd(d, f) <= Len(d) => d[LineEnd(d, f)] = "LF"
      BY <2>1, LineEndHas
    <2> QED BY <1>2, <2>2
  <1>12. FindsUpto(d, e, f, rec)
    BY <1>2, <1>6, <1>7, <1>9, <1>11 DEF FindsUpto
  <1> QED BY <1>10, <1>12

\* Two record areas.
LEMMA SameArea ==
  ASSUME NEW r, NEW s, \A k \in 1..RecordMax : Area(r)[k] = Area(s)[k]
  PROVE  Area(r) = Area(s)
  BY DEF Area

AgreeBut(r, s, g, c) == \A k \in 1..RecordMax : Area(r)[k] = IF k = g THEN c ELSE Area(s)[k]

LEMMA SameAreaBut ==
  ASSUME NEW r, NEW s, NEW g, NEW c, AgreeBut(r, s, g, c)
  PROVE  Area(r) = [Area(s) EXCEPT ![g] = c]
  BY DEF Area, AgreeBut

\* The cells of the record area.
Shows(text, rec, n) ==
  \A k \in 1..RecordMax : (k <= Len(text) => Area(rec)[k] = text[k]) /\ (~(k <= n) => Area(rec)[k] = " ")

LEMMA AreaHas ==
  ASSUME NEW text \in Seq(Cells), NEW rec \in Seq(Cells), NEW n \in Nat, Holds(text, rec, n)
  PROVE  Shows(text, rec, n)
  <1> SUFFICES ASSUME NEW k \in 1..RecordMax
               PROVE  /\ Area(rec)[k] = IF k <= n THEN rec[k] ELSE " "
                      /\ k <= Len(text) => Area(rec)[k] = text[k]
    BY DEF Shows
  <1>1. PICK i \in Nat, l \in Nat, t \in Nat : i = k /\ i > 0 /\ l = Len(rec) /\ t = Len(text) /\ n <= l /\ n <= t
    <2>1. PICK i \in Nat : i = k /\ i > 0
      BY SizesAssumption
    <2>2. PICK l \in Nat, t \in Nat : l = Len(rec) /\ t = Len(text)
      OBVIOUS
    <2>3. n <= l /\ n <= t
      BY <2>2 DEF Holds
    <2> QED BY <2>1, <2>2, <2>3
  <1>2. Area(rec)[k] = IF i <= l THEN rec[i] ELSE " "
    BY <1>1 DEF Area
  <1>3. CASE i <= n
    <2>1. i \in 1..n /\ i <= l
      BY <1>1, <1>3
    <2> QED BY <1>1, <1>2, <1>3, <2>1 DEF Holds
  <1>4. CASE ~(i <= n)
    <2>1. i <= l => i \in n + 1..l
      BY <1>1, <1>4
    <2>2. i <= t => i \in n + 1..t
      BY <1>1, <1>4
    <2>3. i <= l => rec[i] = " "
      BY <1>1, <2>1 DEF Holds
    <2>4. i <= t => text[i] = " "
      BY <1>1, <2>2 DEF Holds
    <2> QED BY <1>1, <1>2, <1>4, <2>3, <2>4
  <1> QED BY <1>3, <1>4

\* Over the line at f there is rec, and it fits.
OversWith(d, e, f, p, text, n, rec) ==
  Overs(d, e, f, p, text, n) /\ Holds(text, rec, n) /\ (d[p] = "LF" \/ p - f <= RecordMax)

\* READ finds the new record, and of the old one only the last cell of a line that has no LF.
FindsRecord(d, e, f, p, rec) ==
  Area(LineAt(e, f).record) = IF d[p] = "LF" THEN Area(rec) ELSE [Area(rec) EXCEPT ![p - f] = d[p]]

LEMMA OverArea ==
  ASSUME NEW d \in Seq(Cells), NEW e \in Seq(Cells), NEW f \in Nat, NEW p \in Nat, NEW text \in Seq(Cells), NEW n \in Nat,
         NEW rec \in Seq(Cells), OversWith(d, e, f, p, text, n, rec)
  PROVE  FindsRecord(d, e, f, p, rec)
  <1>0. Overs(d, e, f, p, text, n) /\ Holds(text, rec, n) /\ (d[p] = "LF" \/ p - f <= RecordMax)
    BY DEF OversWith
  <1> USE <1>0
  <1>1. PICK r \in Seq(Cells) : r = LineAt(e, f).record /\ FindsUpto(d, e, f, r)
    BY OverRead
  <1>2. PICK l \in Nat : /\ l = LineEnd(d, f) /\ f < l /\ l <= Len(d) + 1 /\ (l <= Len(d) <=> d[l] = "LF" /\ l <= Len(d))
                         /\ Len(r) = (IF l - f - 1 <= RecordMax THEN l - f - 1 ELSE RecordMax)
                         /\ \A k \in 1..Len(r) : r[k] = e[f + k]
    BY <1>1 DEF FindsUpto
  <1>3. /\ LineOver(d, f, p, text, e) /\ Len(text) = p - f - 1 /\ n <= p - f - 1 /\ p = Smaller(l, Len(d))
        /\ f < p /\ p <= Len(d) /\ f + 1 < p
    BY <1>2 DEF Overs, LineOver
  <1>4. RecordMax \in Nat
    BY SizesAssumption
  <1>5. p = IF l <= Len(d) THEN l ELSE Len(d)
    BY <1>2, <1>3, SmallerIs
  <1>6. ASSUME NEW k \in 1..p - f - 1 PROVE e[f + k] = text[k]
    <2>1. PICK j \in Nat : j = f + k /\ j \in f + 1..p - 1 /\ j - f = k
      OBVIOUS
    <2> QED BY <1>3, <2>1 DEF LineOver
  <1>7. e[p] = d[p]
    BY <1>3 DEF LineOver
  <1>8. PICK m \in Nat : m = Len(r)
    OBVIOUS
  <1>9. ASSUME NEW k \in 1..RecordMax PROVE Area(r)[k] = IF k <= m THEN e[f + k] ELSE " "
    <2>1. k \in Nat /\ k > 0 /\ (k <= m => k \in 1..Len(r))
      BY <1>4, <1>8
    <2> QED BY <1>2, <1>8, <2>1 DEF Area
  <1>12. \A k \in 1..RecordMax : (k <= Len(text) => Area(rec)[k] = text[k]) /\ (~(k <= n) => Area(rec)[k] = " ")
    <2>1. Holds(text, rec, n)
      OBVIOUS
    <2>2. Shows(text, rec, n)
      BY <2>1, AreaHas
    <2> QED BY <2>2 DEF Shows
  <1>13. PICK t \in Nat : t = Len(text) /\ t = p - f - 1 /\ n <= t
    BY <1>3
  <1>10. CASE d[p] = "LF"
    <2>1. l = p /\ m = IF p - f - 1 <= RecordMax THEN p - f - 1 ELSE RecordMax
      <3>1. CASE l <= Len(d)
        BY <1>2, <1>5, <1>8, <3>1
      <3>2. CASE ~(l <= Len(d))
        <4>1. l = Len(d) + 1
          BY <1>2, <3>2
        <4>2. p \in f + 1..l - 1
          BY <1>3, <4>1
        <4>3. f <= Len(d)
          BY <1>3
        <4>4. \A k \in f + 1..LineEnd(d, f) - 1 : d[k] # "LF"
          BY <4>3, LineEndHas
        <4>5. d[p] # "LF"
          BY <1>2, <4>2, <4>4
        <4> QED BY <1>10, <4>5
      <3> QED BY <3>1, <3>2
    <2>2. ASSUME NEW k \in 1..RecordMax PROVE Area(r)[k] = Area(rec)[k]
      <3>1. PICK i \in Nat : i = k /\ i > 0 /\ i <= RecordMax
        BY <1>4
      <3>2. CASE i <= m
        <4>1. i \in 1..p - f - 1 /\ i <= Len(text)
          BY <1>3, <2>1, <3>1, <3>2
        <4>2. Area(r)[i] = e[f + i] /\ e[f + i] = text[i]
          BY <1>6, <1>9, <3>1, <3>2, <4>1
        <4>3. Area(rec)[i] = text[i]
          BY <1>12, <3>1, <4>1
        <4> QED BY <3>1, <4>2, <4>3
      <3>3. CASE ~(i <= m)
        <4>1. ~(i <= n)
          BY <1>3, <2>1, <3>1, <3>3
        <4>2. Area(r)[i] = " "
          BY <1>9, <3>1, <3>3
        <4>3. Area(rec)[i] = " "
          BY <1>12, <3>1, <4>1
        <4> QED BY <3>1, <4>2, <4>3
      <3> QED BY <3>2, <3>3
    <2>3. Area(r) = Area(rec)
      BY <2>2, SameArea
    <2> QED BY <1>1, <1>10, <2>3 DEF FindsRecord
  <1>11. CASE d[p] # "LF"
    <2>1. l = p + 1 /\ p = Len(d)
      BY <1>2, <1>5, <1>11
    <2>2. PICK g \in Nat : g = p - f /\ m = g /\ g > 0 /\ g <= RecordMax /\ f + g = p /\ t = g - 1
      BY <1>2, <1>3, <1>8, <1>11, <1>13, <2>1
    <2>3. ASSUME NEW k \in 1..RecordMax PROVE Area(r)[k] = IF k = g THEN d[p] ELSE Area(rec)[k]
      <3>1. PICK i \in Nat : i = k /\ i > 0 /\ i <= RecordMax
        BY <1>4
      <3>2. CASE i < g
        <4>1. i <= t /\ i <= m /\ i \in 1..t
          BY <2>2, <3>1, <3>2
        <4>2. Area(r)[i] = e[f + i] /\ e[f + i] = text[i]
          BY <1>6, <1>9, <1>13, <3>1, <4>1
        <4>3. Area(rec)[i] = text[i]
          BY <1>12, <1>13, <3>1, <4>1
        <4> QED BY <3>1, <3>2, <4>2, <4>3
      <3>3. CASE i = g
        <4>1. i <= m /\ f + i = p
          BY <2>2, <3>3
        <4>2. Area(r)[i] = e[f + i]
          BY <1>9, <3>1, <4>1
        <4> QED BY <1>7, <3>1, <3>3, <4>1, <4>2
      <3>4. CASE g < i
        <4>1. ~(i <= m) /\ ~(i <= n)
          BY <1>13, <2>2, <3>1, <3>4
        <4>2. Area(r)[i] = " "
          BY <1>9, <3>1, <4>1
        <4>3. Area(rec)[i] = " "
          BY <1>12, <3>1, <4>1
        <4>4. k # g /\ k = i
          BY <3>1, <3>4
        <4> QED BY <4>2, <4>3, <4>4
      <3> QED BY <3>1, <3>2, <3>3, <3>4
    <2>4. PICK c : c = d[p]
      OBVIOUS
    <2>5. AgreeBut(r, rec, g, c)
      BY <2>3, <2>4 DEF AgreeBut
    <2>6. Area(r) = [Area(rec) EXCEPT ![g] = c]
      BY <2>5, SameAreaBut
    <2> QED BY <1>1, <1>11, <2>2, <2>4, <2>6 DEF FindsRecord
  <1> QED BY <1>10, <1>11

\* Behind a line that is longer than the record the rest of it starts.
LEMMA LongLine ==
  ASSUME NEW d \in Seq(Cells), NEW x \in Nat, x <= Len(d), LineLen(d, x) > RecordMax, split
  PROVE  LineAt(d, x) = [record |-> SubSeq(d, x + 1, x + RecordMax), pos |-> x + RecordMax, status |-> "06"]
  <1>1. RecordMax \in Nat /\ LineLen(d, x) \in Nat
    <2>1. PICK l \in Nat : l = LineEnd(d, x)
      BY LineEndHas
    <2>2. LineLen(d, x) \in Nat
      BY <2>1, LineLenIs
    <2> QED BY <2>2, SizesAssumption
  <1>2. Smaller(LineLen(d, x), RecordMax) = RecordMax
    BY <1>1, SmallerIs
  <1> QED BY <1>1, <1>2 DEF LineAt

LEMMA NextBehind ==
  ASSUME NEW d \in Seq(Cells), NEW x \in Nat, x < Len(d)
  PROVE  LineAt(d, x).pos \in Nat /\ x < LineAt(d, x).pos /\ LineAt(d, x).pos <= LineEnd(d, x)
  <1>0. x <= Len(d)
    OBVIOUS
  <1>1. PICK l \in Nat : l = LineEnd(d, x) /\ x < l /\ l <= Len(d) + 1
    BY <1>0, LineEndHas
  <1>2. PICK n \in Nat : n = LineLen(d, x) /\ n < l - x
    <2>1. PICK n \in Nat : n = LineLen(d, x) /\ (n = l - x - 1 \/ n = l - x - 2)
      BY <1>0, <1>1, LineLenIs
    <2>2. n < l - x
      BY <1>1, <2>1
    <2> QED BY <2>1, <2>2
  <1>3. RecordMax \in 1..9
    BY SizesAssumption
  <1>4. CASE n > RecordMax /\ split
    <2>1. LineAt(d, x).pos = x + RecordMax
      BY <1>2, <1>4 DEF LineAt
    <2> QED BY <1>1, <1>2, <1>3, <1>4, <2>1
  <1>5. CASE ~(n > RecordMax /\ split)
    <2>1. LineAt(d, x).pos = Smaller(l, Len(d))
      BY <1>1, <1>2, <1>5 DEF LineAt
    <2>2. Smaller(l, Len(d)) = IF l <= Len(d) THEN l ELSE Len(d)
      BY <1>1, SmallerIs
    <2> QED BY <1>1, <2>1, <2>2
  <1> QED BY <1>4, <1>5

\* The other lines stay what they are.
LEMMA OverOthers ==
  ASSUME NEW d \in Seq(Cells), NEW e \in Seq(Cells), NEW f \in Nat, NEW p \in Nat, NEW text, LineOver(d, f, p, text, e),
         f + 1 < p, LineStart(d, f), NEW x \in Nat, x < Len(d), x # f, x = 0 \/ d[x] = "LF"
  PROVE  LineAt(e, x) = LineAt(d, x) /\ LineAt(d, x).pos # p
  <1>1. Len(e) = Len(d) /\ f < p /\ p <= Len(d) /\ RecordMax \in 1..9 /\ x \in 0..Len(d)
    BY SizesAssumption DEF LineOver
  <1>2. PICK l \in Nat : l = LineEnd(d, x) /\ x < l /\ l <= Len(d) + 1 /\ (l <= Len(d) => d[l] = "LF") /\ \A k \in x + 1..l - 1 : d[k] # "LF"
    <2>1. x <= Len(d)
      OBVIOUS
    <2> QED BY <2>1, LineEndHas
  <1>3. PICK q \in Nat : q = LineAt(d, x).pos /\ x < q /\ q <= l
    BY <1>2, NextBehind
  <1>4. CASE f < x
    <2>1. d[x] = "LF"
      BY <1>4
    <2>2. p <= x
      <3> SUFFICES ASSUME x < p PROVE FALSE
        OBVIOUS
      <3>1. x \in f + 1..p - 1
        BY <1>4
      <3> QED BY <2>1, <3>1 DEF LineOver
    <2>3. \A k \in x + 1..Len(d) : k <= l => e[k] = d[k]
      BY <2>2 DEF LineOver
    <2>4. LineAt(e, x) = LineAt(d, x)
      BY <1>1, <1>2, <2>3, LineAtSame
    <2> QED BY <1>3, <2>2, <2>4
  <1>5. CASE x < f /\ l <= f
    <2>1. \A k \in x + 1..Len(d) : k <= l => e[k] = d[k]
      BY <1>5 DEF LineOver
    <2>2. LineAt(e, x) = LineAt(d, x)
      BY <1>1, <1>2, <2>1, LineAtSame
    <2> QED BY <1>1, <1>3, <1>5, <2>2
  <1>6. CASE x < f /\ f < l
    <2>1. split /\ RecordMax <= f /\ f < Len(d) /\ Plain(d, f - RecordMax, f + 1)
      <3>1. f \in x + 1..l - 1
        BY <1>6
      <3> QED BY <1>2, <1>6, <3>1 DEF LineStart
    <2>2. x + RecordMax <= f
      <3> SUFFICES ASSUME f < x + RecordMax PROVE FALSE
        BY <1>1
      <3>1. x # 0
        BY <1>1, <2>1
      <3>2. x \in (f - RecordMax) + 1..f + 1
        BY <1>1, <1>6
      <3> QED BY <2>1, <3>1, <3>2 DEF Plain
    <2>3. f + 1 < l
      <3> SUFFICES ASSUME l = f + 1 PROVE FALSE
        BY <1>6
      <3>1. l <= Len(d) /\ f + 1 \in (f - RecordMax) + 1..f + 1
        BY <1>1, <2>1
      <3> QED BY <1>2, <2>1, <3>1 DEF Plain
    <2>4. l <= Len(d) /\ d[l - 1] = "CR" => l # f + 2
      <3> SUFFICES ASSUME l <= Len(d), d[l - 1] = "CR", l = f + 2 PROVE FALSE
        OBVIOUS
      <3>1. l - 1 = f + 1 /\ (f + 1) + 1 = l /\ f + 1 < Len(d) /\ f + 1 \in (f - RecordMax) + 1..f + 1
        BY <1>1
      <3>2. d[(f + 1) + 1] = "LF" /\ d[f + 1] = "CR"
        BY <1>2, <3>1
      <3> QED BY <2>1, <3>1, <3>2 DEF Plain
    <2>0. x <= Len(d) /\ x <= Len(e)
      BY <1>1
    <2>5. LineLen(d, x) > RecordMax
      <3>1. LineLen(d, x) = l - x - 1 \/ (LineLen(d, x) = l - x - 2 /\ l <= Len(d) /\ d[l - 1] = "CR")
        BY <1>2, <2>0, LineLenIs, SMTT(30)
      <3> QED BY <1>1, <2>2, <2>3, <2>4, <3>1
    <2>6. LineEnd(e, x) = l
      BY <1>1, <1>2, OverLines
    <2>7. LineLen(e, x) > RecordMax
      <3>1. LineLen(e, x) = l - x - 1 \/ (LineLen(e, x) = l - x - 2 /\ l <= Len(e) /\ e[l - 1] = "CR")
        <4>1. l = LineEnd(e, x)
          BY <2>6
        <4> QED BY <2>0, <4>1, LineLenIs, SMTT(30)
      <3>2. e[l - 1] = "CR" /\ l <= Len(d) => d[l - 1] = "CR"
        <4>1. l <= Len(d) => l - 1 \in 1..Len(d)
          BY <1>1, <2>3
        <4> QED BY <4>1, OverLines
      <3> QED BY <1>1, <2>2, <2>3, <2>4, <3>1, <3>2
    <2>8. LineAt(d, x) = [record |-> SubSeq(d, x + 1, x + RecordMax), pos |-> x + RecordMax, status |-> "06"]
      BY <1>1, <2>1, <2>5, LongLine
    <2>9. LineAt(e, x) = [record |-> SubSeq(e, x + 1, x + RecordMax), pos |-> x + RecordMax, status |-> "06"]
      BY <1>1, <2>1, <2>7, LongLine
    <2>10. SubSeq(e, x + 1, x + RecordMax) = SubSeq(d, x + 1, x + RecordMax)
      <3>1. PICK n \in Nat : n = RecordMax /\ x + n <= f /\ x + n <= Len(d) /\ x + n <= Len(e)
        BY <1>1, <2>2, <2>1
      <3>2. ASSUME NEW k \in 1..n PROVE e[x + k] = d[x + k]
        <4>1. x + k \in 1..Len(d) /\ x + k <= f
          BY <3>1
        <4> QED BY <4>1 DEF LineOver
      <3>3. AgreeAfter(e, d, x, n)
        BY <3>1, <3>2 DEF AgreeAfter
      <3>4. SubSeq(e, x + 1, x + n) = SubSeq(d, x + 1, x + n)
        BY <3>3, AgreeSame
      <3> QED BY <3>1, <3>4
    <2>11. x + RecordMax # p
      BY <1>1, <2>2
    <2>12. LineAt(e, x) = LineAt(d, x)
      BY <2>8, <2>9, <2>10
    <2>13. LineAt(d, x).pos = x + RecordMax
      BY <2>8
    <2> QED BY <2>11, <2>12, <2>13
  <1> QED BY <1>4, <1>5, <1>6

\* The same cell over and over.
LEMMA SameCells ==
  ASSUME NEW m \in Nat, NEW c \in Cells
  PROVE  \E s \in Seq(Cells) : s = [k \in 1..m |-> c] /\ Len(s) = m /\ \A k \in 1..m : s[k] = c
  <1>1. PICK s : s = [k \in 1..m |-> c]
    OBVIOUS
  <1>2. s \in Seq(Cells) /\ Len(s) = m /\ \A k \in 1..m : s[k] = c
    BY <1>1
  <1> QED BY <1>1, <1>2

LEMMA SpacesIs ==
  ASSUME NEW m \in Nat
  PROVE  Spaces(m) \in Seq(Cells) /\ Len(Spaces(m)) = m /\ \A k \in 1..m : Spaces(m)[k] = " "
  <1>1. PICK c \in Cells : c = " "
    BY DEF Cells
  <1>2. PICK s \in Seq(Cells) : s = [k \in 1..m |-> c] /\ Len(s) = m /\ \A k \in 1..m : s[k] = c
    BY SameCells
  <1>3. Spaces(m) = s
    BY <1>1, <1>2 DEF Spaces
  <1> QED BY <1>1, <1>2, <1>3

\* What LineseqRewrite may do.
LEMMA LineRewritten ==
  ASSUME IInv, org = "LINE", mode = "I-O", readDone, NEW rec \in Records, LineseqRewrite(rec)
  PROVE  \/ UNCHANGED <<files, pos>> /\ (status' = "44" \/ (status' = "00" /\ SizeOf(rec) = 0))
         \/ UNCHANGED files /\ pos' = from /\ status' = "71"
         \/ /\ status' = "00" /\ pos' = pos /\ SizeOf(rec) \in 1..pos - from - 1 /\ SizeOf(rec) <= RecordMax
            /\ \E text \in Seq(Cells), e \in Seq(Cells) :
                 /\ LineOver(bytes, from, pos, text, e) /\ Len(text) = pos - from - 1 /\ files' = [files EXCEPT ![cur] = e]
                 /\ Holds(text, rec, SizeOf(rec))
  <1>1. /\ recOff = from /\ from < pos /\ pos <= Len(bytes) /\ \A k \in from + 1..pos - 1 : bytes[k] # "LF"
    BY DEF IInv, DoneInv
  <1>2. bytes \in Seq(Cells) /\ pos \in Nat /\ from \in Nat
    BY DEF IInv, Types, FileTypes, PlaceTypes, bytes
  <1>3. rec \in Seq(Cells) /\ Len(rec) \in Nat /\ Len(rec) <= RecordMax /\ \A k \in 1..Len(rec) : rec[k] \in {"x", "y", " ", "CR"}
    <2>1. rec \in Seq(Cells) /\ Len(rec) \in 0..RecordMax /\ \A k \in 1..Len(rec) : rec[k] \in {"x", "y", " ", "CR"}
      BY RecIs
    <2>2. RecordMax \in Nat
      BY SizesAssumption
    <2>3. PICK l \in 0..RecordMax : l = Len(rec)
      BY <2>1
    <2>4. l \in Nat /\ l <= RecordMax
      BY <2>2
    <2> QED BY <2>1, <2>3, <2>4
  <1>4. PICK n \in Nat, w \in Seq(Cells) : /\ n = LineseqSize(rec) /\ n <= Len(rec) /\ w = Trimmed(rec) /\ Len(w) = n
                                           /\ \A k \in 1..n : w[k] = rec[k]
    <2>1. /\ LineseqSize(rec) \in 0..Len(rec) /\ Trimmed(rec) \in Seq(Cells) /\ Len(Trimmed(rec)) = LineseqSize(rec)
          /\ \A k \in 1..LineseqSize(rec) : Trimmed(rec)[k] = rec[k]
      BY <1>3, TrimmedIs
    <2>2. LineseqSize(rec) \in Nat /\ LineseqSize(rec) <= Len(rec)
      <3>1. PICK l \in Nat : l = Len(rec)
        BY <1>3
      <3>2. PICK z : z = LineseqSize(rec) /\ z \in 0..l
        BY <2>1, <3>1
      <3>3. z \in Nat /\ z <= l
        BY <3>2
      <3> QED BY <3>1, <3>2, <3>3
    <2> QED BY <2>1, <2>2
  <1>5. SizeOf(rec) = n
    BY <1>4 DEF SizeOf
  <1>6. PICK slot \in Nat : slot = SlotLen /\ slot = pos - from - 1
    BY <1>1, <1>2 DEF SlotLen
  <1>7. CASE n > slot /\ status' = "44" /\ UNCHANGED <<files, pos>>
    BY <1>7
  <1>8. CASE pos' = recOff /\ status' = "71" /\ UNCHANGED files
    BY <1>1, <1>8
  <1>9. CASE n = 0 /\ status' = "00" /\ UNCHANGED <<files, pos>>
    BY <1>5, <1>9
  <1>10. CASE /\ n \in 1..slot /\ ~(\E k \in DOMAIN w : IsBadChar(w[k]))
              /\ OverRecord(w \o Spaces(slot - n)) /\ status' = "00" /\ UNCHANGED pos
    <2>1. \A k \in 1..n : w[k] \notin {"CR", "LF"}
      <3> SUFFICES ASSUME NEW k \in 1..n PROVE w[k] \notin {"CR", "LF"}
        OBVIOUS
      <3>1. ~IsBadChar(w[k])
        BY <1>4, <1>10
      <3>2. w[k] # "CR"
        BY <3>1 DEF IsBadChar
      <3>3. w[k] = rec[k] /\ k \in 1..Len(rec)
        <4>1. PICK l \in Nat : l = Len(rec) /\ n <= l
          BY <1>3, <1>4
        <4>2. k \in 1..l
          BY <4>1
        <4> QED BY <1>4, <4>1, <4>2
      <3> QED BY <1>3, <3>2, <3>3
    <2>2. PICK m \in Nat : m = slot - n
      BY <1>10
    <2>3. PICK v \in Seq(Cells) : v = Spaces(m) /\ Len(v) = m /\ \A k \in 1..m : v[k] = " "
      BY SpacesIs
    <2>4. PICK text \in Seq(Cells) : /\ text = w \o v /\ Len(text) = n + m
                                     /\ \A k \in 1..n + m : text[k] = IF k <= n THEN w[k] ELSE v[k - n]
      <3>1. /\ w \o v \in Seq(Cells) /\ Len(w \o v) = Len(w) + Len(v)
            /\ \A k \in 1..Len(w) + Len(v) : (w \o v)[k] = IF k <= Len(w) THEN w[k] ELSE v[k - Len(w)]
        BY ConcatProperties
      <3>2. Len(w) = n /\ Len(v) = m
        BY <1>4, <2>3
      <3>3. PICK text \in Seq(Cells) : text = w \o v
        BY <3>1
      <3>4. Len(text) = n + m
        BY <3>1, <3>2, <3>3
      <3>5. \A k \in 1..n + m : text[k] = IF k <= n THEN w[k] ELSE v[k - n]
        BY <3>1, <3>2, <3>3
      <3> QED BY <3>3, <3>4, <3>5
    <2>5. n + m = slot /\ Len(text) = pos - from - 1
      BY <1>6, <2>2, <2>4
    <2>6. ASSUME NEW k \in 1..Len(text) PROVE text[k] \notin {"LF", "CR"}
      <3>1. CASE k <= n
        <4>1. k \in 1..n /\ k \in 1..n + m
          BY <2>4, <3>1
        <4> QED BY <2>1, <2>4, <3>1, <4>1
      <3>2. CASE ~(k <= n)
        <4>1. k - n \in 1..m /\ k \in 1..n + m
          BY <2>4, <3>2
        <4> QED BY <2>3, <2>4, <3>2, <4>1
      <3> QED BY <3>1, <3>2
    <2>7. PICK d \in Seq(Cells), f \in Nat, p \in Nat : d = bytes /\ f = from /\ p = pos
      BY <1>2
    <2>8. Put(d, f, text) \in Seq(Cells) /\ LineOver(d, f, p, text, Put(d, f, text))
      <3>1. f < p /\ p <= Len(d) /\ (\A k \in f + 1..p - 1 : d[k] # "LF") /\ Len(text) = p - f - 1
        BY <1>1, <2>5, <2>7
      <3> QED BY <2>6, <3>1, LineOverIs
    <2>9. PICK e \in Seq(Cells) : e = Put(d, f, text) /\ LineOver(bytes, from, pos, text, e)
      BY <2>7, <2>8
    <2>10. files' = [files EXCEPT ![cur] = e]
      <3>1. OverRecord(text)
        BY <1>10, <2>2, <2>3, <2>4
      <3> QED BY <1>1, <2>7, <2>9, <3>1 DEF OverRecord, bytes
    <2>11. Holds(text, rec, n)
      <3>1. n <= Len(text) /\ n <= Len(rec) /\ Len(rec) <= RecordMax
        <4>1. PICK l \in Nat : l = Len(rec) /\ l <= RecordMax /\ n <= l
          BY <1>3, <1>4
        <4>2. PICK t \in Nat : t = Len(text) /\ n <= t
          BY <2>4
        <4> QED BY <4>1, <4>2
      <3>2. ASSUME NEW k \in 1..n PROVE text[k] = rec[k]
        <4>1. k \in 1..n + m /\ k <= n
          OBVIOUS
        <4> QED BY <1>4, <2>4, <4>1
      <3>3. ASSUME NEW k \in n + 1..Len(text) PROVE text[k] = " "
        <4>1. PICK i \in Nat : i = k /\ i \in 1..n + m /\ ~(i <= n) /\ i - n \in 1..m
          BY <2>4
        <4> QED BY <2>3, <2>4, <4>1
      <3>4. ASSUME NEW k \in n + 1..Len(rec) PROVE rec[k] = " "
        BY <1>3, <1>4, BlankBehind
      <3> QED BY <3>1, <3>2, <3>3, <3>4 DEF Holds
    <2>12. SizeOf(rec) \in 1..pos - from - 1 /\ SizeOf(rec) <= RecordMax
      <3>1. n <= RecordMax
        <4>1. PICK l \in Nat : l = Len(rec) /\ n <= l /\ l <= RecordMax
          BY <1>3, <1>4
        <4>2. RecordMax \in Nat
          BY SizesAssumption
        <4> QED BY <4>1, <4>2
      <3> QED BY <1>5, <1>6, <1>10, <3>1
    <2> QED BY <1>5, <1>10, <2>5, <2>9, <2>10, <2>11, <2>12
  <1> QED BY <1>4, <1>6, <1>7, <1>8, <1>9, <1>10 DEF LineseqRewrite, Returns

-----------------------------------------------------------------------------
(* REWRITE of a variable-length record. *)

LEMMA VariableOver ==
  ASSUME NEW d \in Seq(Cells), NEW p \in Nat, NEW n \in Nat, org = "VARIABLE", Room(d, p, n),
         NEW new \in Seq(Cells), Len(new) = n
  PROVE  /\ p - n \in Nat /\ Put(d, p - n, new) \in Seq(Cells) /\ Len(d) <= Len(Put(d, p - n, new))
         /\ \A x \in 0..Len(d) : x \in Starts(d) <=> x \in Starts(Put(d, p - n, new))
         /\ p \in Starts(d) \/ Astray(d, p) => p \in Starts(Put(d, p - n, new)) \/ Astray(Put(d, p - n, new), p)
  <1>1. StartsAre(d, Starts(d))
    BY StartsIs
  <1>2. PICK q \in Starts(d) : q < Len(d) /\ q + 1 <= p - n /\ (HasRecord(d, q) => p <= Behind(d, q))
    BY DEF Room
  <1>3. q \in Nat
    BY <1>1 DEF StartsAre
  <1>4. PICK b \in Nat : b = p - n
    BY <1>2, <1>3
  <1>5. b + n = p /\ q < b
    BY <1>2, <1>3, <1>4
  <1>6. PICK e : e = Put(d, b, new)
    OBVIOUS
  <1>7. /\ e \in Seq(Cells) /\ Len(e) = (IF Len(d) >= b + Len(new) THEN Len(d) ELSE b + Len(new))
        /\ \A k \in 1..Len(e) : e[k] = IF k \in b + 1..b + Len(new) THEN new[k - b]
                                        ELSE IF k <= Len(d) THEN d[k] ELSE "NUL"
    BY <1>6, PutIs
  <1>8. Len(d) <= Len(e) /\ (Len(e) = Len(d) \/ (Len(e) = p /\ Len(d) < p))
    <2>1. CASE Len(d) >= b + Len(new)
      BY <1>7, <2>1
    <2>2. CASE ~(Len(d) >= b + Len(new))
      <3>1. Len(e) = p
        BY <1>5, <1>7, <2>2
      <3> QED BY <1>5, <2>2, <3>1
    <2> QED BY <2>1, <2>2
  <1>9. ASSUME NEW s \in Starts(d), s < Len(d) PROVE d[s + 1] = e[s + 1]
    <2>1. s \in Nat
      BY <1>1 DEF StartsAre
    <2>2. s + 1 <= b \/ p < s + 1
      <3>1. CASE s <= q
        BY <1>3, <1>5, <2>1, <3>1
      <3>2. CASE q < s
        <4>1. HasRecord(d, q) /\ Behind(d, q) <= s
          BY <3>2, NoneBetween
        <4>2. Behind(d, q) \in Nat
          BY <1>3, <4>1, BehindIs
        <4> QED BY <1>2, <2>1, <4>1, <4>2
      <3> QED BY <1>3, <2>1, <3>1, <3>2
    <2>3. s + 1 \in 1..Len(e) /\ s + 1 <= Len(d) /\ s + 1 \notin b + 1..b + Len(new)
      BY <1>5, <1>7, <1>8, <1>9, <2>1, <2>2
    <2> QED BY <1>7, <2>3
  <1>10. \A x \in 0..Len(d) : x \in Starts(d) <=> x \in Starts(e)
    BY <1>7, <1>8, <1>9, StartsKept
  <1>11. \A s \in Starts(d) : s < Len(d) => s \in Starts(e) /\ s < Len(e) /\ (HasRecord(d, s) <=> HasRecord(e, s)) /\ Behind(d, s) = Behind(e, s)
    <2> SUFFICES ASSUME NEW s \in Starts(d), s < Len(d)
                 PROVE  s \in Starts(e) /\ s < Len(e) /\ (HasRecord(d, s) <=> HasRecord(e, s)) /\ Behind(d, s) = Behind(e, s)
      OBVIOUS
    <2>1. s \in 0..Len(d) /\ s < Len(e)
      BY <1>1, <1>7, <1>8 DEF StartsAre
    <2>2. s \in Starts(e) /\ d[s + 1] = e[s + 1]
      BY <1>9, <1>10, <2>1
    <2> QED BY <2>1, <2>2 DEF HasRecord, Behind
  <1>12. ASSUME p \in Starts(d) PROVE p \in Starts(e)
    <2>1. p \in 0..Len(d)
      BY <1>1, <1>12 DEF StartsAre
    <2> QED BY <1>10, <1>12, <2>1
  <1>13. ASSUME Astray(d, p) PROVE p \in Starts(e) \/ Astray(e, p)
    <2>1. PICK a \in Starts(d) : a < Len(d) /\ a < p /\ (~HasRecord(d, a) \/ (Len(d) < Behind(d, a) /\ Len(d) <= p))
      BY <1>13 DEF Astray
    <2>2. a \in Starts(e) /\ a < Len(e) /\ (HasRecord(d, a) <=> HasRecord(e, a)) /\ Behind(d, a) = Behind(e, a) /\ a \in Nat
      BY <1>1, <1>11, <2>1 DEF StartsAre
    <2>3. CASE ~HasRecord(d, a)
      BY <2>1, <2>2, <2>3 DEF Astray
    <2>4. CASE HasRecord(d, a) /\ Len(d) < Behind(d, a) /\ Len(d) <= p
      <3>1. Behind(d, a) \in Nat /\ Len(e) <= p /\ Len(e) \in Nat
        BY <1>7, <1>8, <2>2, <2>4, BehindIs
      <3>2. CASE Len(e) < Behind(d, a)
        BY <2>1, <2>2, <3>1, <3>2 DEF Astray
      <3>3. CASE Behind(d, a) <= Len(e)
        <4>1. Len(e) = p /\ Len(d) < p
          BY <1>7, <1>8, <2>4, <3>1, <3>3
        <4>2. a = q
          <5>1. ~(q < a)
            <6> SUFFICES ASSUME q < a PROVE FALSE
              OBVIOUS
            <6>1. HasRecord(d, q) /\ Behind(d, q) <= a
              BY NoneBetween
            <6>2. Behind(d, q) \in Nat
              BY <1>3, <6>1, BehindIs
            <6> QED BY <1>2, <2>1, <2>2, <6>1, <6>2
          <5>2. ~(a < q)
            <6> SUFFICES ASSUME a < q PROVE FALSE
              OBVIOUS
            <6>1. Behind(d, a) <= q
              BY NoneBetween
            <6> QED BY <1>2, <1>3, <2>4, <3>1, <6>1
          <5> QED BY <1>3, <2>2, <5>1, <5>2
        <4>3. Behind(d, a) = p
          BY <1>2, <2>4, <3>1, <3>3, <4>1, <4>2
        <4>4. StartsAre(e, Starts(e))
          BY <1>7, StartsIs
        <4>5. Behind(e, a) \in Starts(e)
          BY <2>2, <2>4, <3>3, <4>4 DEF StartsAre
        <4> QED BY <2>2, <4>3, <4>5
      <3> QED BY <3>1, <3>2, <3>3
    <2> QED BY <2>1, <2>3, <2>4
  <1> QED BY <1>4, <1>6, <1>7, <1>8, <1>10, <1>12, <1>13

-----------------------------------------------------------------------------
(* REWRITE keeps the invariant. *)

\* One of the open files is replaced.
LEMMA OneReplaced ==
  ASSUME FileTypes, NEW e \in Seq(Cells), files' = [files EXCEPT ![cur] = e]
  PROVE  /\ files' \in Seq(Seq(Cells)) /\ Len(files') = Len(files) /\ files'[cur] = e
         /\ \A k \in 1..Len(files) : k # cur => files'[k] = files[k]
  <1>1. files \in Seq(Seq(Cells)) /\ cur \in 1..Len(files)
    BY DEF FileTypes
  <1> QED BY <1>1, ExceptSeq

LEMMA RewriteTypes ==
  ASSUME IInv, mode = "I-O", pc = "idle", NEW rec \in Records, Fills(rec), readDone' = FALSE, status' \in Codes,
         UNCHANGED <<org, split, cur, mode, pc, recOff, eof, needsNl, from>>,
         files' \in Seq(Seq(Cells)), Len(files') = Len(files), pos' \in Nat,
         org = "LINE" => /\ \A k \in 1..Len(files') : Ended(files'[k])
                         /\ pos' <= Len(files'[cur]) /\ (LineStart(files'[cur], pos') \/ pos' = Len(files'[cur])),
         org = "VARIABLE" => pos' \in Starts(files'[cur]) \/ Astray(files'[cur], pos')
  PROVE  IInv'
  <1>1. record' \in Seq(Cells) /\ Len(record') <= RecordMax /\ recSize' \in 0..9
    <2>1. rec \in Seq(Cells) /\ Len(rec) \in 0..RecordMax /\ Len(rec) \in 0..9
      BY RecIs
    <2>2. SizeOf(rec) \in 0..9
      <3>1. LineseqSize(rec) \in 0..Len(rec)
        BY <2>1, TrimmedIs
      <3>2. LineseqSize(rec) \in 0..9
        <4>1. PICK n : n = Len(rec) /\ n \in 0..9
          BY <2>1
        <4>2. PICK x : x = LineseqSize(rec) /\ x \in 0..n
          BY <3>1, <4>1
        <4>3. x \in 0..9
          BY <4>1, <4>2
        <4> QED BY <4>2, <4>3
      <3> QED BY <2>1, <3>2 DEF SizeOf
    <2>3. record' = rec /\ recSize' = SizeOf(rec)
      BY DEF Fills
    <2>4. Len(rec) <= RecordMax
      BY <2>1, SizesAssumption
    <2> QED BY <2>1, <2>2, <2>3, <2>4
  <1>2. Types'
    <2>1. FileTypes' /\ PlaceTypes' /\ RecordTypes'
      BY <1>1 DEF IInv, Types, FileTypes, PlaceTypes, RecordTypes
    <2>2. ModeTypes'
      BY DEF IInv, Types, ModeTypes
    <2>3. Control'
      BY DEF IInv, Types, Control, WriteModes
    <2> QED BY <2>1, <2>2, <2>3 DEF Types
  <1>3. PICK d, p : d = files'[cur] /\ p = pos' /\ bytes' = d
    BY DEF bytes
  <1>4. Starts(d)' = Starts(d) /\ (LineStart(d, p)' <=> LineStart(d, p)) /\ (Astray(d, p)' <=> Astray(d, p))
    <2>1. UNCHANGED settings
      BY DEF settings
    <2> QED BY <2>1, Primes
  <1>5. LineInv'
    BY <1>3, <1>4 DEF LineInv, Reading, ReadModes, WriteModes
  <1>6. VariableInv'
    BY <1>3, <1>4 DEF VariableInv, Reading
  <1> QED BY <1>2, <1>5, <1>6, NotDone DEF IInv

LEMMA RewriteKeeps ==
  ASSUME IInv, NEW rec \in Records, CobRewrite(rec)
  PROVE  IInv'
  <1>1. /\ pc = "idle" /\ readDone' = FALSE
        /\ UNCHANGED <<org, split, settings, cur, mode, pc, recOff, eof, needsNl, from>>
    BY DEF CobRewrite, Idle, settings, ghosts
  <1>2. CASE ~Rewritable(rec) /\ UNCHANGED <<files, pos, record, recSize>> /\ status' \in {"43", "44", "49"}
    <2>1. UNCHANGED <<files, place>> /\ status' \in Codes /\ eof' \in BOOLEAN
      BY <1>1, <1>2, CodesIs DEF place, IInv, Types, ModeTypes
    <2>2. Types'
      BY <1>1, <1>2, <2>1, AnswerTypes DEF IInv
    <2>3. LineInv' /\ VariableInv'
      BY <1>1, <1>2, <2>1, IdleFrame DEF IInv
    <2> QED BY <1>1, <2>2, <2>3, NotDone DEF IInv
  <1>3. CASE Rewritable(rec) /\ Fills(rec) /\ org = "LINE" /\ LineseqRewrite(rec)
    <2>1. mode = "I-O" /\ readDone
      BY <1>3 DEF Rewritable
    <2>2. /\ FileTypes /\ files \in Seq(Seq(Cells)) /\ cur \in 1..Len(files) /\ pos \in Nat /\ from \in Nat /\ bytes \in Seq(Cells)
      BY DEF IInv, Types, FileTypes, PlaceTypes, bytes
    <2>3. /\ \A k \in 1..Len(files) : Ended(files[k])
          /\ pos <= Len(bytes) /\ (LineStart(bytes, pos) \/ pos = Len(bytes))
      BY <1>1, <1>3, <2>1 DEF IInv, LineInv, Reading, ReadModes, WriteModes
    <2>4. LineStart(bytes, from) /\ from < pos
      BY <1>3, <2>1 DEF IInv, DoneInv
    <2>5. CASE UNCHANGED <<files, pos>> /\ status' \in {"00", "44"}
      <3>1. status' \in Codes
        BY <2>5, CodesIs
      <3> QED BY <1>1, <1>3, <2>1, <2>2, <2>3, <2>5, <3>1, RewriteTypes DEF bytes
    <2>6. CASE UNCHANGED files /\ pos' = from /\ status' = "71"
      <3>1. status' \in Codes
        BY <2>6, CodesIs
      <3>2. from <= Len(bytes)
        BY <2>2, <2>3, <2>4
      <3> QED BY <1>1, <1>3, <2>1, <2>2, <2>3, <2>4, <2>6, <3>1, <3>2, RewriteTypes DEF bytes
    <2>7. CASE /\ status' = "00" /\ pos' = pos
               /\ \E text \in Seq(Cells), e \in Seq(Cells) :
                    LineOver(bytes, from, pos, text, e) /\ files' = [files EXCEPT ![cur] = e]
      <3>1. PICK text \in Seq(Cells), e \in Seq(Cells) : LineOver(bytes, from, pos, text, e) /\ files' = [files EXCEPT ![cur] = e]
        BY <2>7
      <3>2. /\ files' \in Seq(Seq(Cells)) /\ Len(files') = Len(files) /\ files'[cur] = e
            /\ \A k \in 1..Len(files) : k # cur => files'[k] = files[k]
        BY <2>2, <3>1, OneReplaced
      <3>3. PICK d \in Seq(Cells), f \in Nat, p \in Nat : d = bytes /\ f = from /\ p = pos
        BY <2>2
      <3>4. /\ \A x \in 0..Len(d) : LineStart(d, x) => LineStart(e, x)
            /\ Ended(d) => Ended(e)
        BY <3>1, <3>3, OverLines
      <3>5. Len(e) = Len(d)
        BY <3>1, <3>3 DEF LineOver
      <3>6. Ended(d)
        BY <2>2, <2>3, <3>3 DEF bytes
      <3>7. \A k \in 1..Len(files') : Ended(files'[k])
        BY <2>2, <2>3, <3>2, <3>4, <3>6
      <3>8. p <= Len(e) /\ (LineStart(e, p) \/ p = Len(e))
        BY <2>3, <3>3, <3>4, <3>5
      <3>9. status' \in Codes
        BY <2>7, CodesIs
      <3> QED BY <1>1, <1>3, <2>1, <2>7, <3>2, <3>3, <3>7, <3>8, <3>9, RewriteTypes
    <2> QED BY <1>3, <2>1, <2>5, <2>6, <2>7, LineRewritten
  <1>4. CASE Rewritable(rec) /\ Fills(rec) /\ org = "VARIABLE" /\ SequentialRewrite(rec)
    <2>1. mode = "I-O" /\ readDone /\ recSize = Len(rec)
      BY <1>4 DEF Rewritable
    <2>2. /\ FileTypes /\ files \in Seq(Seq(Cells)) /\ cur \in 1..Len(files) /\ pos \in Nat /\ bytes \in Seq(Cells)
      BY DEF IInv, Types, FileTypes, PlaceTypes, bytes
    <2>3. Room(bytes, pos, recSize) /\ (pos \in Starts(bytes) \/ Astray(bytes, pos))
      BY <1>4, <2>1 DEF IInv, DoneInv, VariableInv, Reading, ReadModes
    <2>4. rec \in Seq(Cells)
      BY RecIs
    <2>5. PICK d \in Seq(Cells), p \in Nat, n \in Nat : d = bytes /\ p = pos /\ n = Len(rec)
      BY <2>2, <2>4
    <2>6. PICK e \in Seq(Cells) : /\ e = Put(d, p - n, rec) /\ (p \in Starts(e) \/ Astray(e, p))
      <3>1. Room(d, p, n)
        BY <2>1, <2>3, <2>5
      <3>2. /\ Put(d, p - n, rec) \in Seq(Cells)
            /\ p \in Starts(d) \/ Astray(d, p) => p \in Starts(Put(d, p - n, rec)) \/ Astray(Put(d, p - n, rec), p)
        BY <1>4, <2>4, <2>5, <3>1, VariableOver
      <3> QED BY <2>3, <2>5, <3>2
    <2>7. files' = [files EXCEPT ![cur] = e] /\ status' = "00" /\ pos' = pos
      BY <1>4, <2>5, <2>6 DEF SequentialRewrite, bytes, Returns
    <2>8. files' \in Seq(Seq(Cells)) /\ Len(files') = Len(files) /\ files'[cur] = e
      BY <2>2, <2>7, OneReplaced
    <2>9. status' \in Codes
      BY <2>7, CodesIs
    <2> QED BY <1>1, <1>4, <2>1, <2>2, <2>5, <2>6, <2>7, <2>8, <2>9, RewriteTypes
  <1> QED BY <1>2, <1>3, <1>4 DEF CobRewrite, Returns

-----------------------------------------------------------------------------
(* The invariant, from the first state on. *)

LEMMA Begins ==
  ASSUME FilesEnd, Init
  PROVE  IInv
  <1>1. /\ org \in {"LINE", "VARIABLE"} /\ split \in BOOLEAN /\ cur = 1 /\ pos = 0 /\ mode = "CLOSED" /\ pc = "idle"
        /\ record = <<>> /\ recSize = RecordMax /\ recOff = 0 /\ readDone = FALSE /\ eof = FALSE /\ needsNl = FALSE
        /\ status = "00" /\ from = 0
    BY DEF Init, Organizations
  <1>2. PICK first \in Contents[org] : files \in {<<first>>} \cup {<<first, second>> : second \in Second[org]}
    BY DEF Init
  <1>3. first \in Seq(Cells) /\ Second[org] \subseteq Seq(Cells)
    BY <1>1, <1>2, ContentsAssumption
  <1>4. /\ files \in Seq(Seq(Cells)) /\ Len(files) \in 1..2 /\ 1 \in 1..Len(files)
        /\ \A k \in 1..Len(files) : files[k] \in Contents[org] \cup Second[org]
    <2>1. CASE files = <<first>>
      BY <1>2, <1>3, <2>1
    <2>2. CASE \E second \in Second[org] : files = <<first, second>>
      <3>1. PICK second \in Second[org] : files = <<first, second>>
        BY <2>2
      <3> QED BY <1>2, <1>3, <3>1
    <2> QED BY <1>2, <2>1, <2>2
  <1>5. Types
    <2>1. FileTypes /\ PlaceTypes
      BY <1>1, <1>4 DEF FileTypes, PlaceTypes, Organizations
    <2>2. ModeTypes
      BY <1>1, CodesIs DEF ModeTypes
    <2>3. RecordTypes
      <3>1. record \in Seq(Cells) /\ Len(record) = 0
        BY <1>1
      <3>2. recSize \in 0..9 /\ 0 <= RecordMax
        BY <1>1, SizesAssumption
      <3> QED BY <3>1, <3>2 DEF RecordTypes
    <2>4. Control
      BY <1>1 DEF Control, Reading, ReadModes, WriteModes
    <2> QED BY <2>1, <2>2, <2>3, <2>4 DEF Types
  <1>6. LineInv
    <2>1. org = "LINE" => \A k \in 1..Len(files) : Ended(files[k])
      BY <1>4 DEF FilesEnd
    <2> QED BY <1>1, <2>1 DEF LineInv, Reading, ReadModes, WriteModes
  <1>7. VariableInv /\ DoneInv
    BY <1>1 DEF VariableInv, DoneInv, Reading, ReadModes
  <1> QED BY <1>5, <1>6, <1>7 DEF IInv

LEMMA Stutters ==
  ASSUME IInv, UNCHANGED vars
  PROVE  IInv'
  <1>1. /\ UNCHANGED <<org, split, settings, files, cur, pos, place, mode, pc, record, recSize, recOff, readDone, eof, needsNl,
                       status, from, bytes>>
    BY DEF vars, settings, place, bytes
  <1>2. PICK d, p, f, n, rec, st : d = bytes /\ p = pos /\ f = from /\ n = recSize /\ rec = record /\ st = status
    OBVIOUS
  <1>3. /\ Starts(d)' = Starts(d) /\ (Sound(d)' <=> Sound(d)) /\ (LineStart(d, p)' <=> LineStart(d, p))
        /\ (LineStart(d, f)' <=> LineStart(d, f)) /\ (Astray(d, p)' <=> Astray(d, p)) /\ (Room(d, p, n)' <=> Room(d, p, n))
        /\ RecordAt(d, f)' = RecordAt(d, f)
    BY <1>1, Primes
  <1>4. Types'
    <2>1. FileTypes' /\ PlaceTypes' /\ RecordTypes'
      BY <1>1 DEF IInv, Types, FileTypes, PlaceTypes, RecordTypes
    <2>2. ModeTypes'
      BY <1>1 DEF IInv, Types, ModeTypes
    <2>3. Control'
      BY <1>1 DEF IInv, Types, Control, Reading
    <2> QED BY <2>1, <2>2, <2>3 DEF Types
  <1>5. Taking => Taking'
    BY <1>1, <1>2, <1>3 DEF Taking
  <1>6. LineInv'
    BY <1>1, <1>2, <1>3, <1>5 DEF IInv, LineInv, Reading
  <1>7. VariableInv'
    BY <1>1, <1>2, <1>3 DEF IInv, VariableInv, Reading
  <1>8. DoneInv'
    BY <1>1, <1>2, <1>3 DEF IInv, DoneInv
  <1> QED BY <1>4, <1>6, <1>7, <1>8 DEF IInv

LEMMA StepKeeps ==
  ASSUME IInv, LinesAdvance, [Next]_vars
  PROVE  IInv'
  <1>1. ASSUME NEW m \in {"INPUT", "OUTPUT", "I-O", "EXTEND"}, CobOpen(m) PROVE IInv'
    BY <1>1, OpenKeeps
  <1>2. CASE CobOpenAgain \/ CobClose \/ CobCloseAgain
    BY <1>2, OpenAgainKeeps, CloseKeeps, CloseAgainKeeps
  <1>3. CASE CobReadRefused \/ CobRead
    BY <1>3, ReadRefusedKeeps, ReadLineKeeps, VariableKeeps DEF CobRead
  <1>4. CASE GetStep
    BY <1>4, EofKeeps, LineEndKeeps, CharKeeps DEF GetStep
  <1>5. ASSUME NEW rec \in Records, NEW adv \in Advances, CobWrite(rec, adv) PROVE IInv'
    BY <1>5, WriteKeeps
  <1>6. ASSUME NEW rec \in Records, CobRewrite(rec) PROVE IInv'
    BY <1>6, RewriteKeeps
  <1>7. CASE UNCHANGED vars
    BY <1>7, Stutters
  <1> QED BY <1>1, <1>2, <1>3, <1>4, <1>5, <1>6, <1>7 DEF Next

\* What holds at every point between two operations and inside READ: the loop of lineseq_read has so much
\* of the line as it has passed, an open file stands where a record starts, and after READ the place of
\* the record is the one REWRITE will write to.
THEOREM Inductive ==
  ASSUME FilesEnd, LinesAdvance
  PROVE  Spec => []IInv
  <1>1. Init => IInv
    BY Begins
  <1>2. IInv /\ [Next]_vars => IInv'
    BY StepKeeps
  <1> QED BY <1>1, <1>2, PTL DEF Spec

-----------------------------------------------------------------------------
(* READ. *)

\* At the end of READ there is the record that begins at from.
LEMMA ReadsRecord ==
  ASSUME IInv, CobRead \/ GetStep, pc' = "idle", readDone', Sound(bytes)
  PROVE  RecordAt(bytes, from') = [record |-> record', pos |-> pos', status |-> status']
  <1>1. ASSUME Delivered(bytes), pc = "getc" PROVE RecordAt(bytes, from') = [record |-> record', pos |-> pos', status |-> status']
    <2>1. org = "LINE" /\ from' = from
      BY <1>1 DEF IInv, Types, Control, Delivered
    <2> QED BY <1>1, <2>1 DEF Delivered, RecordAt
  <1>2. CASE CobReadLine
    BY <1>2 DEF CobReadLine
  <1>3. CASE CobReadVariable
    BY <1>3, VariableKeeps
  <1>4. CASE GetLineEnd
    <2>1. pc = "getc"
      BY <1>4 DEF GetLineEnd, Getting
    <2> QED BY <1>1, <1>4, <2>1, LineEndDelivers DEF IInv
  <1>5. CASE GetEof
    <2>1. pc = "getc"
      BY <1>5 DEF GetEof, Getting
    <2>2. record # <<>>
      <3> SUFFICES ASSUME record = <<>> PROVE FALSE
        OBVIOUS
      <3>1. pc' = "idle" /\ ReadStatus("10")
        BY <1>5, <2>1 DEF GetEof
      <3>2. "10" \notin Good
        BY DEF Good
      <3> QED BY <3>1, <3>2, ReadStatusIs
    <2> QED BY <1>1, <1>5, <2>1, <2>2, EofDelivers DEF IInv
  <1>6. CASE GetChar
    <2>1. pc = "getc"
      BY <1>6 DEF GetChar, Getting
    <2>2. Len(record) + 1 = RecordMax /\ split
      <3> SUFFICES ASSUME ~(Len(record) + 1 = RecordMax /\ split) PROVE FALSE
        OBVIOUS
      <3> QED BY <1>6, <2>1, CharTakes DEF IInv
    <2> QED BY <1>1, <1>6, <2>1, <2>2, CharDelivers DEF IInv
  <1> QED BY <1>2, <1>3, <1>4, <1>5, <1>6 DEF CobRead, GetStep

\* READ delivers the record that begins where it began, with the status the record deserves, and leaves the
\* file behind it: for any record size and any files that end as FilesEnd says.
THEOREM ReadsInOrder ==
  ASSUME FilesEnd, LinesAdvance
  PROVE  Spec => ReadIsNextRecord
  <1>1. IInv /\ [Next]_vars =>
          [(CobRead \/ GetStep) /\ pc' = "idle" /\ readDone' /\ Sound(bytes) =>
             RecordAt(bytes, from') = [record |-> record', pos |-> pos', status |-> status']]_vars
    BY ReadsRecord
  <1> QED BY <1>1, Inductive, PTL DEF Spec, ReadIsNextRecord

\* Every variable keeps its type.
THEOREM TypeCorrect ==
  ASSUME FilesEnd, LinesAdvance
  PROVE  Spec => []TypeOK
  <1>1. IInv => TypeOK
    BY DEF IInv, Types, FileTypes, PlaceTypes, ModeTypes, RecordTypes, Codes, ReadModes, WriteModes, TypeOK
  <1> QED BY <1>1, Inductive, PTL

-----------------------------------------------------------------------------
(* REWRITE. *)

\* In a line sequential file.
LEMMA LineReplaced ==
  ASSUME IInv, org = "LINE", NEW rec \in Records, CobRewrite(rec), status' = "00", status \in {"00", "09"}, SizeOf(rec) > 0
  PROVE  /\ Starts(bytes') = Starts(bytes)
         /\ \A x \in Starts(bytes) \ {Len(bytes)} :
              IF RecordAt(bytes, x).pos = pos
              THEN IsNow(x, rec)
              ELSE RecordAt(bytes', x) = RecordAt(bytes, x)
  <1>1. mode = "I-O" /\ readDone /\ LineseqRewrite(rec) /\ cur' = cur
    BY DEF CobRewrite, Rewritable, Returns
  <1>2. /\ FileTypes /\ bytes \in Seq(Cells) /\ pos \in Nat /\ from \in Nat /\ cur \in 1..Len(files)
    BY DEF IInv, Types, FileTypes, PlaceTypes, bytes
  <1>3. PICK d \in Seq(Cells), f \in Nat, p \in Nat : d = bytes /\ f = from /\ p = pos
    BY <1>2
  <1>4. /\ LineStart(d, f) /\ f < p /\ p <= Len(d) /\ f < Len(d) /\ LineAt(d, f) = [record |-> record, pos |-> p, status |-> status]
    <2>1. status \in Good /\ Sound(d)
      BY DEF Good, Sound
    <2>2. f \in 0..Len(d) - 1 /\ RecordAt(d, f) = [record |-> record, pos |-> p, status |-> status]
      BY <1>1, <1>3, <2>1 DEF IInv, DoneInv
    <2>3. LineStart(d, f) /\ f < p /\ p <= Len(d)
      BY <1>1, <1>3 DEF IInv, DoneInv
    <2> QED BY <2>2, <2>3 DEF RecordAt
  <1>5. p = Smaller(LineEnd(d, f), Len(d))
    <2>1. LineAt(d, f).pos = p /\ LineAt(d, f).status \notin {"04", "06"}
      BY <1>4
    <2>2. ~(LineLen(d, f) > RecordMax)
      BY <2>1 DEF LineAt
    <2> QED BY <2>1, <2>2 DEF LineAt
  <1>14. d[p] = "LF" \/ p - f <= RecordMax
    <2>1. ~(LineLen(d, f) > RecordMax)
      <3>1. LineAt(d, f).status \notin {"04", "06"}
        BY <1>4
      <3> QED BY <3>1 DEF LineAt
    <2>2. PICK l \in Nat : l = LineEnd(d, f) /\ f < l /\ l <= Len(d) + 1 /\ (l <= Len(d) => d[l] = "LF")
      BY <1>4, LineEndHas
    <2>3. p = IF l <= Len(d) THEN l ELSE Len(d)
      BY <1>5, <2>2, SmallerIs
    <2>4. CASE l <= Len(d)
      BY <2>2, <2>3, <2>4
    <2>5. CASE ~(l <= Len(d))
      <3>1. LineLen(d, f) = l - f - 1
        BY <2>2, <2>5 DEF LineLen
      <3>2. l = p + 1 /\ RecordMax \in Nat
        BY <2>2, <2>3, <2>5, SizesAssumption
      <3> QED BY <2>1, <2>2, <3>1, <3>2
    <2> QED BY <2>4, <2>5
  <1>6. PICK n \in Nat : n = SizeOf(rec)
    <2>1. rec \in Seq(Cells)
      BY RecIs
    <2>2. LineseqSize(rec) \in 0..Len(rec)
      BY <2>1, TrimmedIs
    <2>3. LineseqSize(rec) \in Nat
      BY <2>2
    <2> QED BY <2>3 DEF SizeOf
  <1>7. /\ n \in 1..p - f - 1 /\ n <= RecordMax
        /\ \E text \in Seq(Cells), e \in Seq(Cells) :
             /\ LineOver(d, f, p, text, e) /\ Len(text) = p - f - 1 /\ files' = [files EXCEPT ![cur] = e]
             /\ Holds(text, rec, n)
    <2>1. n # 0
      BY <1>6
    <2> QED BY <1>1, <1>3, <1>6, <2>1, LineRewritten
  <1>8. PICK text \in Seq(Cells), e \in Seq(Cells) :
             /\ LineOver(d, f, p, text, e) /\ Len(text) = p - f - 1 /\ files' = [files EXCEPT ![cur] = e]
             /\ Holds(text, rec, n)
    BY <1>7
  <1>9. bytes' = e
    BY <1>1, <1>2, <1>8, OneReplaced DEF bytes
  <1>10. n \in Nat /\ n > 0 /\ n <= p - f - 1 /\ f + 1 < p /\ n <= RecordMax
    BY <1>7
  <1>11. Len(e) = Len(d) /\ \A k \in 1..Len(d) : e[k] = "LF" <=> d[k] = "LF"
    <2>1. Len(e) = Len(d)
      BY <1>8 DEF LineOver
    <2> QED BY <1>8, <2>1, OverLines
  <1>12. Starts(e) = Starts(d)
    BY <1>11 DEF Starts
  <1>13. ASSUME NEW x \in Starts(d) \ {Len(d)}
         PROVE  IF LineAt(d, x).pos = p
                THEN FindsRecord(d, e, x, p, rec)
                ELSE LineAt(e, x) = LineAt(d, x)
    <2>1. x \in Nat /\ x < Len(d) /\ (x = 0 \/ d[x] = "LF")
      <3>1. x \in {0} \cup {y \in 1..Len(d) : d[y] = "LF"} /\ x # Len(d)
        BY DEF Starts
      <3>2. PICK l \in Nat : l = Len(d)
        OBVIOUS
      <3>3. x = 0 \/ x \in 1..l
        BY <3>1, <3>2
      <3>4. x \in Nat /\ x <= l
        BY <3>2, <3>3
      <3> QED BY <3>1, <3>2, <3>4
    <2>2. CASE x = f
      <3>1. LineAt(d, x).pos = p
        BY <1>4, <2>2
      <3>2. FindsRecord(d, e, f, p, rec)
        <4>1. LineOver(d, f, p, text, e) /\ Len(text) = p - f - 1
          BY <1>8
        <4>2. Overs(d, e, f, p, text, n)
          BY <1>5, <1>10, <4>1 DEF Overs
        <4>3. rec \in Seq(Cells) /\ Holds(text, rec, n)
          BY <1>8, RecIs
        <4>4. OversWith(d, e, f, p, text, n, rec)
          BY <1>14, <4>2, <4>3 DEF OversWith
        <4> QED BY <4>3, <4>4, OverArea
      <3> QED BY <2>2, <3>1, <3>2
    <2>3. CASE x # f
      <3>1. LineAt(e, x) = LineAt(d, x) /\ LineAt(d, x).pos # p
        BY <1>4, <1>8, <1>10, <2>1, <2>3, OverOthers
      <3> QED BY <3>1
    <2> QED BY <2>2, <2>3
  <1> QED BY <1>3, <1>6, <1>9, <1>12, <1>13 DEF RecordAt, IsNow, FindsRecord

\* Another record than the one that is written over.
LEMMA VariableOthers ==
  ASSUME NEW d \in Seq(Cells), NEW e \in Seq(Cells), Len(e) = Len(d), org = "VARIABLE", Sound(d),
         NEW f \in Starts(d), f < Len(d), \A k \in 1..Len(d) : (k <= f + 1 \/ Behind(d, f) < k) => e[k] = d[k],
         NEW x \in Starts(d), x < Len(d), x # f
  PROVE  VariableAt(e, x) = VariableAt(d, x) /\ VariableAt(d, x).pos # Behind(d, f)
  <1>1. x \in Nat /\ f \in Nat
    BY StartsIs DEF StartsAre
  <1>2. /\ HasRecord(d, x) /\ Behind(d, x) <= Len(d) /\ HasRecord(d, f) /\ Behind(d, f) <= Len(d)
        /\ Behind(d, x) \in Nat /\ x < Behind(d, x) /\ Behind(d, f) \in Nat /\ f < Behind(d, f) /\ LengthIn(d[x + 1]) \in 0..9
    BY <1>1, SoundStarts, BehindIs
  <1>3. Behind(d, x) <= f \/ Behind(d, f) <= x
    <2>1. CASE x < f
      BY <2>1, NoneBetween
    <2>2. CASE f < x
      BY <2>2, NoneBetween
    <2> QED BY <1>1, <2>1, <2>2
  <1>4. PICK b \in Nat, q \in Nat : b = Behind(d, x) /\ q = Behind(d, f) /\ b <= Len(d) /\ x < b /\ f < q /\ (b <= f \/ q <= x)
    <2>1. PICK b \in Nat : b = Behind(d, x)
      BY <1>2
    <2>2. PICK q \in Nat : q = Behind(d, f)
      BY <1>2
    <2> QED BY <1>2, <1>3, <2>1, <2>2
  <1>5. ASSUME NEW k \in x + 1..b PROVE e[k] = d[k]
    <2>1. k \in 1..Len(d) /\ (k <= f + 1 \/ q < k)
      BY <1>1, <1>4
    <2> QED BY <1>4, <2>1
  <1>6. e[x + 1] = d[x + 1]
    BY <1>1, <1>4, <1>5
  <1>7. PICK z \in Nat : z = LengthIn(d[x + 1]) /\ b = x + 1 + z
    <2>1. PICK z \in 0..9 : z = LengthIn(d[x + 1])
      BY <1>2
    <2>2. Behind(d, x) = x + 1 + z
      BY <2>1 DEF Behind
    <2>3. z \in Nat /\ b = x + 1 + z
      BY <1>4, <2>1, <2>2
    <2> QED BY <2>1, <2>3
  <1>8. PICK m \in Nat : m = Smaller(z, RecordMax) /\ m <= z
    <2>1. RecordMax \in Nat
      BY SizesAssumption
    <2>2. Smaller(z, RecordMax) = IF z <= RecordMax THEN z ELSE RecordMax
      BY <2>1, SmallerIs
    <2> QED BY <2>1, <2>2
  <1>9. SubSeq(d, x + 2, x + 1 + m) = SubSeq(e, x + 2, x + 1 + m)
    <2>1. PICK y \in Nat : y = x + 1
      BY <1>1
    <2>2. y + m <= Len(d) /\ y + m <= Len(e)
      BY <1>1, <1>4, <1>7, <1>8, <2>1
    <2>3. ASSUME NEW k \in 1..m PROVE d[y + k] = e[y + k]
      <3>1. y + k \in x + 1..b
        BY <1>1, <1>7, <1>8, <2>1
      <3> QED BY <1>5, <3>1
    <2>4. AgreeAfter(d, e, x + 1, m)
      BY <2>1, <2>2, <2>3 DEF AgreeAfter
    <2> QED BY <1>1, <2>4, AgreeRecord
  <1>10. VariableAt(e, x) = VariableAt(d, x)
    BY <1>6, <1>7, <1>8, <1>9 DEF VariableAt, Behind
  <1>11. VariableAt(d, x).pos # Behind(d, f)
    <2>1. VariableAt(d, x).pos = b
      BY <1>4 DEF VariableAt
    <2> QED BY <1>1, <1>4, <2>1
  <1> QED BY <1>10, <1>11

\* In a file of variable-length records.
LEMMA VariableReplaced ==
  ASSUME IInv, org = "VARIABLE", NEW rec \in Records, CobRewrite(rec), status' = "00", status \in {"00", "09"}, Sound(bytes)
  PROVE  /\ Starts(bytes') = Starts(bytes)
         /\ \A x \in Starts(bytes) \ {Len(bytes)} :
              IF RecordAt(bytes, x).pos = pos
              THEN IsNow(x, rec)
              ELSE RecordAt(bytes', x) = RecordAt(bytes, x)
  <1>1. mode = "I-O" /\ readDone /\ recSize = Len(rec) /\ SequentialRewrite(rec) /\ cur' = cur
    BY DEF CobRewrite, Rewritable, Returns
  <1>2. /\ FileTypes /\ bytes \in Seq(Cells) /\ pos \in Nat /\ from \in Nat /\ cur \in 1..Len(files)
    BY DEF IInv, Types, FileTypes, PlaceTypes, bytes
  <1>3. rec \in Seq(Cells)
    BY RecIs
  <1>4. PICK d \in Seq(Cells), f \in Nat, p \in Nat, n \in Nat : d = bytes /\ f = from /\ p = pos /\ n = Len(rec)
    <2>1. PICK n \in Nat : n = Len(rec)
      BY <1>3
    <2> QED BY <1>2, <2>1
  <1>5. /\ f \in Starts(d) /\ f < Len(d) /\ VariableAt(d, f) = [record |-> record, pos |-> p, status |-> status]
        /\ Len(record) = n /\ Room(d, p, n)
    <2>1. status \in Good
      BY DEF Good
    <2>2. /\ f \in 0..Len(d) - 1 /\ RecordAt(d, f) = [record |-> record, pos |-> p, status |-> status] /\ f \in Starts(d)
          /\ Len(record) = n /\ Room(d, p, n)
      BY <1>1, <1>4, <2>1 DEF IInv, DoneInv
    <2> QED BY <2>2 DEF RecordAt
  <1>6. HasRecord(d, f) /\ Behind(d, f) <= Len(d) /\ LengthIn(d[f + 1]) \in 0..9
    BY <1>4, <1>5, SoundStarts, BehindIs
  <1>7. PICK z \in Nat : z = LengthIn(d[f + 1])
    BY <1>6
  <1>8. p = Behind(d, f) /\ z = n /\ p = f + 1 + n /\ n <= RecordMax
    <2>1. VariableAt(d, f).pos = Behind(d, f)
      BY DEF VariableAt
    <2>2. p = f + 1 + z /\ p <= Len(d)
      BY <1>5, <1>6, <1>7, <2>1 DEF Behind
    <2>3. z \in RecordMin..RecordMax
      <3>1. VariableAt(d, f).status # "04"
        BY <1>5
      <3> QED BY <1>7, <3>1 DEF VariableAt
    <2>4. RecordMax \in Nat /\ RecordMin \in Nat
      BY SizesAssumption
    <2>5. Smaller(z, RecordMax) = z
      BY <2>3, <2>4, SmallerIs
    <2>6. record = SubSeq(d, f + 2, f + 1 + z)
      <3>1. VariableAt(d, f).record = SubSeq(d, f + 2, f + 1 + z)
        BY <1>7, <2>5 DEF VariableAt
      <3> QED BY <1>5, <3>1
    <2>7. Len(record) = z
      <3>1. PICK y \in Nat : y = f + 1
        OBVIOUS
      <3>2. y + z <= Len(d)
        BY <2>2, <3>1
      <3>3. PICK s \in Seq(Cells) : s = SubSeq(d, y + 1, y + z) /\ Len(s) = z /\ \A k \in 1..z : s[k] = d[y + k]
        BY <3>2, PartIs
      <3>4. y + 1 = f + 2 /\ y + z = f + 1 + z
        BY <3>1
      <3> QED BY <2>6, <3>3, <3>4
    <2> QED BY <1>5, <2>1, <2>2, <2>3, <2>4, <2>7
  <1>9. PICK b \in Nat : b = f + 1
    OBVIOUS
  <1>10. p - n = b /\ b + n = p /\ p <= Len(d)
    BY <1>6, <1>8, <1>9
  <1>11. PICK e \in Seq(Cells) : /\ e = Put(d, b, rec) /\ \A x \in 0..Len(d) : x \in Starts(d) <=> x \in Starts(e)
    <2>1. /\ Put(d, p - n, rec) \in Seq(Cells)
          /\ \A x \in 0..Len(d) : x \in Starts(d) <=> x \in Starts(Put(d, p - n, rec))
      BY <1>3, <1>4, <1>5, VariableOver
    <2> QED BY <1>10, <2>1
  <1>12. /\ Len(e) = Len(d) /\ \A k \in 1..n : e[b + k] = rec[k]
         /\ \A k \in 1..Len(d) : (k <= b \/ p < k) => e[k] = d[k]
    <2>1. /\ Len(e) = (IF Len(d) >= b + n THEN Len(d) ELSE b + n)
          /\ \A k \in 1..Len(e) : e[k] = IF k \in b + 1..b + n THEN rec[k - b]
                                          ELSE IF k <= Len(d) THEN d[k] ELSE "NUL"
      BY <1>3, <1>4, <1>11, PutIs
    <2>2. Len(e) = Len(d)
      BY <1>10, <2>1
    <2>3. ASSUME NEW k \in 1..n PROVE e[b + k] = rec[k]
      <3>1. PICK i \in Nat : i = b + k
        OBVIOUS
      <3>2. i \in 1..Len(e) /\ i \in b + 1..b + n /\ i - b = k
        BY <1>10, <2>2, <3>1
      <3> QED BY <2>1, <3>1, <3>2
    <2>4. ASSUME NEW k \in 1..Len(d), k <= b \/ p < k PROVE e[k] = d[k]
      <3>1. k \notin b + 1..b + n /\ k \in 1..Len(e) /\ k <= Len(d)
        BY <1>10, <2>2, <2>4
      <3> QED BY <2>1, <3>1
    <2> QED BY <2>2, <2>3, <2>4
  <1>13. bytes' = e
    <2>1. files' = [files EXCEPT ![cur] = e]
      BY <1>1, <1>4, <1>10, <1>11 DEF SequentialRewrite, bytes
    <2> QED BY <1>1, <1>2, <2>1, OneReplaced DEF bytes
  <1>14. Starts(e) = Starts(d)
    <2>1. Starts(d) \subseteq 0..Len(d) /\ Starts(e) \subseteq 0..Len(d)
      BY <1>12, StartsIs DEF StartsAre
    <2> QED BY <1>11, <2>1
  <1>15. ASSUME NEW x \in Starts(d) \ {Len(d)}
         PROVE  IF VariableAt(d, x).pos = p
                THEN VariableAt(e, x).record = rec
                ELSE VariableAt(e, x) = VariableAt(d, x)
    <2>1. x \in Nat /\ x < Len(d)
      <3>1. x \in 0..Len(d) /\ x # Len(d)
        BY StartsIs DEF StartsAre
      <3>2. PICK l \in Nat : l = Len(d)
        OBVIOUS
      <3> QED BY <3>1, <3>2
    <2>2. CASE x = f
      <3>1. VariableAt(d, x).pos = p
        BY <1>5, <2>2
      <3>2. LengthIn(e[f + 1]) = n
        <4>1. b \in 1..Len(d) /\ b <= b
          BY <1>9, <1>10
        <4> QED BY <1>7, <1>8, <1>9, <1>12, <4>1
      <3>3. Smaller(n, RecordMax) = n
        <4>1. RecordMax \in Nat
          BY SizesAssumption
        <4> QED BY <1>8, <4>1, SmallerIs
      <3>4. VariableAt(e, x).record = SubSeq(e, f + 2, f + 1 + n)
        BY <2>2, <3>2, <3>3 DEF VariableAt
      <3>5. PICK s \in Seq(Cells) : s = SubSeq(e, b + 1, b + n) /\ Len(s) = n /\ \A k \in 1..n : s[k] = e[b + k]
        <4>1. b + n <= Len(e)
          BY <1>10, <1>12
        <4> QED BY <4>1, PartIs
      <3>6. s = rec
        BY <1>3, <1>4, <1>12, <3>5, SameSeq
      <3>7. b + 1 = f + 2 /\ b + n = f + 1 + n
        BY <1>9
      <3>8. VariableAt(e, x).record = rec
        BY <3>4, <3>5, <3>6, <3>7
      <3> QED BY <3>1, <3>8
    <2>3. CASE x # f
      <3>1. \A k \in 1..Len(d) : (k <= f + 1 \/ Behind(d, f) < k) => e[k] = d[k]
        BY <1>8, <1>9, <1>12
      <3>2. VariableAt(e, x) = VariableAt(d, x) /\ VariableAt(d, x).pos # Behind(d, f)
        BY <1>4, <1>5, <1>12, <2>1, <2>3, <3>1, VariableOthers
      <3> QED BY <1>8, <3>2
    <2> QED BY <2>2, <2>3
  <1> QED BY <1>4, <1>13, <1>14, <1>15 DEF RecordAt, IsNow

\* REWRITE replaces the record last read and no other: for any record size and any files that end as
\* FilesEnd says, it reads back as the new one, whole and with nothing behind it (but for the last character
\* of a file that does not end in LF), and the others are what and where they were.
THEOREM Rewrites ==
  ASSUME FilesEnd, LinesAdvance
  PROVE  Spec => RewriteReplaces
  <1>1. IInv /\ [Next]_vars =>
          [\A rec \in Records :
             CobRewrite(rec) /\ status' = "00" /\ status \in {"00", "09"} /\ SizeOf(rec) > 0 /\ Sound(bytes) =>
               /\ Starts(bytes') = Starts(bytes)
               /\ \A p \in Starts(bytes) \ {Len(bytes)} :
                    IF RecordAt(bytes, p).pos = pos
                    THEN IsNow(p, rec)
                    ELSE RecordAt(bytes', p) = RecordAt(bytes, p)]_vars
    <2> SUFFICES ASSUME IInv, NEW rec \in Records, CobRewrite(rec), status' = "00", status \in {"00", "09"},
                        SizeOf(rec) > 0, Sound(bytes)
                 PROVE  /\ Starts(bytes') = Starts(bytes)
                        /\ \A p \in Starts(bytes) \ {Len(bytes)} :
                             IF RecordAt(bytes, p).pos = pos
                             THEN IsNow(p, rec)
                             ELSE RecordAt(bytes', p) = RecordAt(bytes, p)
      OBVIOUS
    <2>1. org \in {"LINE", "VARIABLE"}
      BY DEF IInv, Types, FileTypes, Organizations
    <2> QED BY <2>1, LineReplaced, VariableReplaced
  <1> QED BY <1>1, Inductive, PTL DEF Spec, RewriteReplaces


-----------------------------------------------------------------------------
(* What a file holds: the records counted up from its start. *)

\* The records that start before p, when w are those that start before p - 1.
Upto(d, p, w) ==
  IF p - 1 \in Starts(d) /\ (org = "LINE" => RecordAt(d, p - 1).record # <<>>) THEN Append(w, RecordAt(d, p - 1).record) ELSE w
RecordRun(d, n, f) == f = [p \in 0..n |-> IF p = 0 THEN <<>> ELSE Upto(d, p, f[p - 1])]

LEMMA RecordRunIs ==
  ASSUME NEW d, NEW n \in Nat, NEW f, RecordRun(d, n, f)
  PROVE  f[0] = <<>> /\ \A p \in 1..n : f[p] = Upto(d, p, f[p - 1])
  <1>1. f[0] = <<>>
    BY DEF RecordRun
  <1>2. ASSUME NEW p \in 1..n PROVE f[p] = Upto(d, p, f[p - 1])
    <2>1. p \in 0..n /\ p # 0
      OBVIOUS
    <2> QED BY <2>1 DEF RecordRun
  <1> QED BY <1>1, <1>2

LEMMA RecordRuns ==
  ASSUME NEW d, NEW n \in Nat
  PROVE  \E f : RecordRun(d, n, f)
  <1>1. PICK T : T = {m \in 0..n : \E f : RecordRun(d, m, f)}
    OBVIOUS
  <1>2. 0 \in T
    <2>1. PICK f : f = [p \in 0..0 |-> <<>>]
      OBVIOUS
    <2>2. RecordRun(d, 0, f)
      BY <2>1 DEF RecordRun
    <2> QED BY <1>1, <2>2
  <1>3. ASSUME NEW i \in 0..(n - 1), i \in T PROVE i + 1 \in T
    <2>1. PICK f : RecordRun(d, i, f)
      BY <1>1, <1>3
    <2>2. PICK e : e = Upto(d, i + 1, f[i])
      OBVIOUS
    <2>3. PICK g : g = [p \in 0..(i + 1) |-> IF p = i + 1 THEN e ELSE f[p]]
      OBVIOUS
    <2>4. \A p \in 0..(i + 1) : g[p] = IF p = 0 THEN <<>> ELSE Upto(d, p, g[p - 1])
      <3> SUFFICES ASSUME NEW p \in 0..(i + 1)
                   PROVE  g[p] = IF p = 0 THEN <<>> ELSE Upto(d, p, g[p - 1])
        OBVIOUS
      <3>1. CASE p = 0
        <4>1. g[p] = f[0]
          BY <2>3, <3>1
        <4>2. f[0] = <<>>
          <5>1. i \in Nat
            OBVIOUS
          <5> QED BY <2>1, <5>1, RecordRunIs
        <4> QED BY <3>1, <4>1, <4>2
      <3>2. CASE p = i + 1
        <4>1. g[p] = e /\ g[p - 1] = f[i] /\ p # 0
          BY <2>3, <3>2
        <4> QED BY <2>2, <3>2, <4>1
      <3>3. CASE p \in 1..i
        <4>1. g[p] = f[p] /\ g[p - 1] = f[p - 1] /\ p # 0
          BY <2>3, <3>3
        <4>2. f[p] = Upto(d, p, f[p - 1])
          <5>1. i \in Nat
            OBVIOUS
          <5>2. \A r \in 1..i : f[r] = Upto(d, r, f[r - 1])
            BY <2>1, <5>1, RecordRunIs
          <5> QED BY <3>3, <5>2
        <4> QED BY <4>1, <4>2
      <3> QED BY <3>1, <3>2, <3>3
    <2>5. g = [p \in 0..(i + 1) |-> g[p]]
      BY <2>3
    <2>6. RecordRun(d, i + 1, g)
      BY <2>4, <2>5 DEF RecordRun
    <2> QED BY <1>1, <2>6
  <1>4. \A p \in 0..n : p \in T
    BY <1>2, <1>3, CountingUp
  <1>5. n \in T
    BY <1>4
  <1> QED BY <1>1, <1>5

LEMMA RecordsAre ==
  ASSUME NEW d \in Seq(Cells), NEW n \in Nat, n = Len(d)
  PROVE  \E f : /\ f[0] = <<>> /\ RecordsOf(d) = f[n]
                /\ \A p \in 1..n : f[p] = Upto(d, p, f[p - 1])
  <1>1. \E f : RecordRun(d, Len(d), f)
    BY RecordRuns
  <1>2. PICK f : RecordRun(d, n, f) /\ RecordsOf(d) = f[n]
    <2>1. RecordsOf(d) = (CHOOSE f : RecordRun(d, Len(d), f))[Len(d)]
      BY DEF RecordRun, Upto, RecordsOf
    <2>2. RecordRun(d, Len(d), CHOOSE f : RecordRun(d, Len(d), f))
      BY <1>1
    <2> QED BY <2>1, <2>2
  <1>3. f[0] = <<>> /\ \A p \in 1..n : f[p] = Upto(d, p, f[p - 1])
    BY <1>2, RecordRunIs
  <1> QED BY <1>2, <1>3

\* e is d and one more record.
Extends(d, e, r) ==
  /\ Len(d) < Len(e)
  /\ \A x \in 0..Len(d) - 1 :
       (x \in Starts(d) <=> x \in Starts(e)) /\ (x \in Starts(d) => RecordAt(e, x).record = RecordAt(d, x).record)
  /\ Len(d) \in Starts(e) /\ r = RecordAt(e, Len(d)).record
  /\ \A x \in Len(d) + 1..Len(e) - 1 : x \notin Starts(e)

LEMMA OneMore ==
  ASSUME NEW d \in Seq(Cells), NEW e \in Seq(Cells), NEW r, Extends(d, e, r)
  PROVE  RecordsOf(e) = IF org = "LINE" => r # <<>> THEN Append(RecordsOf(d), r) ELSE RecordsOf(d)
  <1>1. PICK n \in Nat, m \in Nat : n = Len(d) /\ m = Len(e)
    OBVIOUS
  <1>2. n < m
    BY <1>1 DEF Extends
  <1>3. PICK f : f[0] = <<>> /\ RecordsOf(d) = f[n] /\ \A p \in 1..n : f[p] = Upto(d, p, f[p - 1])
    BY <1>1, RecordsAre
  <1>4. PICK g : g[0] = <<>> /\ RecordsOf(e) = g[m] /\ \A p \in 1..m : g[p] = Upto(e, p, g[p - 1])
    BY <1>1, RecordsAre
  <1>5. g[n] = f[n]
    <2>1. PICK T : T = {p \in 0..n : g[p] = f[p]}
      OBVIOUS
    <2>2. 0 \in T
      BY <1>3, <1>4, <2>1
    <2>3. ASSUME NEW i \in 0..(n - 1), i \in T PROVE i + 1 \in T
      <3>1. i + 1 \in 1..n /\ i + 1 \in 1..m /\ (i + 1) - 1 = i /\ i \in 0..Len(d) - 1 /\ i + 1 \in 0..n
        BY <1>1, <1>2
      <3>2. g[i] = f[i]
        BY <2>1, <2>3
      <3>3. f[i + 1] = Upto(d, i + 1, f[i]) /\ g[i + 1] = Upto(e, i + 1, g[i])
        BY <1>3, <1>4, <3>1
      <3>4. (i \in Starts(d) <=> i \in Starts(e)) /\ (i \in Starts(d) => RecordAt(e, i).record = RecordAt(d, i).record)
        BY <3>1 DEF Extends
      <3>5. Upto(e, i + 1, g[i]) = Upto(d, i + 1, f[i])
        BY <3>1, <3>2, <3>4 DEF Upto
      <3> QED BY <2>1, <3>1, <3>3, <3>5
    <2>4. \A p \in 0..n : p \in T
      BY <2>2, <2>3, CountingUp
    <2>5. n \in T
      BY <2>4
    <2> QED BY <2>1, <2>5
  <1>6. g[n + 1] = IF org = "LINE" => r # <<>> THEN Append(f[n], r) ELSE f[n]
    <2>1. n + 1 \in 1..m /\ (n + 1) - 1 = n
      BY <1>2
    <2>2. g[n + 1] = Upto(e, n + 1, g[n])
      BY <1>4, <2>1
    <2>3. n \in Starts(e) /\ r = RecordAt(e, n).record
      BY <1>1 DEF Extends
    <2> QED BY <1>5, <2>1, <2>2, <2>3 DEF Upto
  <1>7. PICK h \in Nat : n + 1 + h = m
    <2>1. m - (n + 1) \in Nat /\ n + 1 + (m - (n + 1)) = m
      BY <1>2
    <2> QED BY <2>1
  <1>8. g[m] = g[n + 1]
    <2>1. PICK T : T = {i \in 0..h : g[n + 1 + i] = g[n + 1]}
      OBVIOUS
    <2>2. 0 \in T
      <3>1. n + 1 + 0 = n + 1 /\ 0 \in 0..h
        OBVIOUS
      <3> QED BY <2>1, <3>1
    <2>3. ASSUME NEW i \in 0..(h - 1), i \in T PROVE i + 1 \in T
      <3>1. PICK p \in Nat : p = n + 1 + i
        OBVIOUS
      <3>2. p + 1 \in 1..m /\ (p + 1) - 1 = p /\ p \in n + 1..m - 1 /\ p + 1 = n + 1 + (i + 1) /\ i + 1 \in 0..h
        BY <1>7, <3>1
      <3>3. g[p] = g[n + 1]
        BY <2>1, <2>3, <3>1
      <3>4. g[p + 1] = Upto(e, p + 1, g[p])
        BY <1>4, <3>2
      <3>5. p \notin Starts(e)
        BY <1>1, <3>2 DEF Extends
      <3>6. g[p + 1] = g[p]
        BY <3>2, <3>4, <3>5 DEF Upto
      <3> QED BY <2>1, <3>2, <3>3, <3>6
    <2>4. \A i \in 0..h : i \in T
      BY <2>2, <2>3, CountingUp
    <2>5. h \in T
      BY <2>4
    <2> QED BY <1>7, <2>1, <2>5
  <1> QED BY <1>3, <1>4, <1>6, <1>8

-----------------------------------------------------------------------------
(* What WRITE adds to a line sequential file. *)

LineEnds(d) == d = <<>> \/ d[Len(d)] = "LF"

\* A line is the same in a file that goes on behind it.
LEMMA LineInFront ==
  ASSUME NEW d \in Seq(Cells), NEW e \in Seq(Cells), Len(d) <= Len(e), \A k \in 1..Len(d) : e[k] = d[k],
         NEW x \in Nat, x < Len(d), d[Len(d)] = "LF"
  PROVE  LineAt(e, x).record = LineAt(d, x).record
  <1>1. PICK l \in Nat : l = LineEnd(d, x) /\ x < l /\ l <= Len(d) + 1 /\ (l <= Len(d) => d[l] = "LF") /\ \A k \in x + 1..l - 1 : d[k] # "LF"
    <2>1. x <= Len(d)
      OBVIOUS
    <2>2. /\ LineEnd(d, x) \in Nat /\ x < LineEnd(d, x) /\ LineEnd(d, x) <= Len(d) + 1
          /\ LineEnd(d, x) <= Len(d) => d[LineEnd(d, x)] = "LF"
          /\ \A k \in x + 1..LineEnd(d, x) - 1 : d[k] # "LF"
      BY <2>1, LineEndHas
    <2>3. PICK l \in Nat : l = LineEnd(d, x)
      BY <2>2
    <2> QED BY <2>2, <2>3
  <1>2. l <= Len(d)
    <2> SUFFICES ASSUME ~(l <= Len(d)) PROVE FALSE
      OBVIOUS
    <2>1. Len(d) \in x + 1..l - 1
      BY <1>1
    <2> QED BY <1>1, <2>1
  <1>3. LineEnd(e, x) = l
    <2>1. l \in 1..Len(d) /\ l <= Len(e) + 1
      BY <1>1, <1>2
    <2>2. e[l] = "LF"
      BY <1>1, <1>2, <2>1
    <2>3. ASSUME NEW k \in x + 1..l - 1 PROVE e[k] # "LF"
      <3>1. k \in 1..Len(d)
        BY <1>2
      <3> QED BY <1>1, <3>1
    <2> QED BY <1>1, <2>1, <2>2, <2>3, LineEndIs
  <1>4. LineLen(e, x) = LineLen(d, x)
    <2>1. l > x + 1 => e[l - 1] = d[l - 1]
      <3> SUFFICES ASSUME l > x + 1 PROVE e[l - 1] = d[l - 1]
        OBVIOUS
      <3>1. l - 1 \in 1..Len(d)
        BY <1>2
      <3> QED BY <3>1
    <2>2. l <= Len(e)
      BY <1>2
    <2> QED BY <1>1, <1>2, <1>3, <2>1, <2>2 DEF LineLen
  <1>5. PICK n \in Nat : n = LineLen(d, x) /\ x + n <= Len(d)
    BY <1>1, LineLenIs
  <1>6. PICK m \in Nat : m = Smaller(n, RecordMax) /\ m <= n
    <2>1. RecordMax \in Nat
      BY SizesAssumption
    <2>2. Smaller(n, RecordMax) = IF n <= RecordMax THEN n ELSE RecordMax
      BY <2>1, SmallerIs
    <2> QED BY <2>1, <2>2
  <1>7. SubSeq(d, x + 1, x + m) = SubSeq(e, x + 1, x + m)
    <2>1. x + m <= Len(d) /\ x + m <= Len(e)
      BY <1>5, <1>6
    <2>2. ASSUME NEW k \in 1..m PROVE d[x + k] = e[x + k]
      <3>1. x + k \in 1..Len(d)
        BY <2>1
      <3> QED BY <3>1
    <2> QED BY <2>1, <2>2, SamePart
  <1> QED BY <1>4, <1>5, <1>6, <1>7 DEF LineAt

\* The text of a WRITE.
Text(t) == t \in Seq(Cells) /\ Len(t) <= RecordMax /\ \A k \in 1..Len(t) : t[k] \notin {"LF", "CR"}

\* e is d and the line t.
LineBehind(d, t, e) ==
  /\ Len(e) = Len(d) + Len(t) + 1 /\ e[Len(e)] = "LF"
  /\ \A k \in 1..Len(d) : e[k] = d[k]
  /\ \A k \in 1..Len(t) : e[Len(d) + k] = t[k]

\* e is what d is and, unless it is blank, the line t.
OneLineMore(d, t, e) ==
  LineEnds(e) /\ RecordsOf(e) = IF t # <<>> THEN Append(RecordsOf(d), t) ELSE RecordsOf(d)

LEMMA LineAdded ==
  ASSUME org = "LINE", NEW d \in Seq(Cells), NEW e \in Seq(Cells), NEW t \in Seq(Cells), LineEnds(d), Text(t), LineBehind(d, t, e)
  PROVE  OneLineMore(d, t, e)
  <1>1. PICK n \in Nat, h \in Nat, m \in Nat : n = Len(d) /\ h = Len(t) /\ m = Len(e)
    OBVIOUS
  <1>2. m = n + h + 1 /\ e[m] = "LF" /\ h <= RecordMax
    BY <1>1 DEF LineBehind, Text
  <1>3. ASSUME NEW k \in 1..n PROVE e[k] = d[k]
    BY <1>1 DEF LineBehind
  <1>4. ASSUME NEW k \in n + 1..n + h PROVE e[k] = t[k - n] /\ e[k] \notin {"LF", "CR"}
    <2>1. k - n \in 1..h /\ n + (k - n) = k
      OBVIOUS
    <2> QED BY <1>1, <2>1 DEF LineBehind, Text
  <1>5. LineAt(e, n).record = t
    <2>1. Plain(e, n, n + h)
      BY <1>4 DEF Plain
    <2>2. PICK q \in Nat : q = n + h /\ q + 1 = m
      BY <1>2
    <2>3. LineAt(e, n) = LineRec(e, n, h, m)
      <3>1. n <= q /\ q <= Len(e) /\ Plain(e, n, q) /\ q - n = h /\ q - n <= RecordMax /\ q < Len(e) /\ e[q + 1] = "LF"
        BY <1>1, <1>2, <2>1, <2>2
      <3>2. LineAt(e, n) = LineRec(e, n, q - n, m)
        BY <2>2, <3>1, LineDone
      <3> QED BY <3>1, <3>2
    <2>4. RecordMax \in Nat
      BY SizesAssumption
    <2>5. Smaller(h, RecordMax) = h
      BY <1>2, <2>4, SmallerIs
    <2>6. LineAt(e, n).record = SubSeq(e, n + 1, n + h)
      BY <2>3, <2>5 DEF LineRec
    <2>7. n + h <= Len(e)
      BY <1>1, <1>2
    <2>8. PICK s \in Seq(Cells) : s = SubSeq(e, n + 1, n + h) /\ Len(s) = h /\ \A k \in 1..h : s[k] = e[n + k]
      BY <2>7, PartIs
    <2>9. ASSUME NEW k \in 1..h PROVE s[k] = t[k]
      <3>1. n + k \in n + 1..n + h /\ (n + k) - n = k
        OBVIOUS
      <3> QED BY <1>4, <2>8, <3>1
    <2>10. s = t
      BY <1>1, <2>8, <2>9, SameSeq
    <2> QED BY <2>6, <2>8, <2>10
  <1>6. \A x : (x \in Starts(d) <=> x = 0 \/ (x \in 1..n /\ d[x] = "LF")) /\ (x \in Starts(e) <=> x = 0 \/ (x \in 1..m /\ e[x] = "LF"))
    BY <1>1 DEF Starts
  <1>7. ASSUME NEW x \in 0..n - 1
        PROVE  (x \in Starts(d) <=> x \in Starts(e)) /\ (x \in Starts(d) => RecordAt(e, x).record = RecordAt(d, x).record)
    <2>1. x \in Starts(d) <=> x \in Starts(e)
      <3>1. CASE x = 0
        BY <1>6, <3>1
      <3>2. CASE x \in 1..n
        <4>1. x \in 1..m
          BY <1>2, <3>2
        <4> QED BY <1>3, <1>6, <3>2, <4>1
      <3> QED BY <3>1, <3>2
    <2>2. LineAt(e, x).record = LineAt(d, x).record
      <3>1. x < Len(d) /\ Len(d) <= Len(e) /\ x \in Nat
        BY <1>1, <1>2
      <3>2. d[Len(d)] = "LF"
        BY <3>1 DEF LineEnds
      <3>3. \A k \in 1..Len(d) : e[k] = d[k]
        BY <1>1, <1>3
      <3> QED BY <3>1, <3>2, <3>3, LineInFront
    <2> QED BY <2>1, <2>2 DEF RecordAt
  <1>8. n \in Starts(e)
    <2>1. CASE n = 0
      BY <1>6, <2>1
    <2>2. CASE n # 0
      <3>1. d[n] = "LF" /\ n \in 1..n /\ n \in 1..m
        BY <1>1, <1>2, <2>2 DEF LineEnds
      <3> QED BY <1>3, <1>6, <3>1
    <2> QED BY <2>1, <2>2
  <1>9. ASSUME NEW x \in n + 1..m - 1 PROVE x \notin Starts(e)
    <2>1. x \in n + 1..n + h /\ x # 0
      BY <1>2
    <2> QED BY <1>4, <1>6, <2>1
  <1>10. Extends(d, e, t)
    BY <1>1, <1>2, <1>5, <1>7, <1>8, <1>9 DEF Extends, RecordAt
  <1>11. RecordsOf(e) = IF t # <<>> THEN Append(RecordsOf(d), t) ELSE RecordsOf(d)
    BY <1>10, OneMore
  <1> QED BY <1>1, <1>2, <1>11 DEF LineEnds, OneLineMore

\* e is d and m blank lines.
BlanksBehind(d, m, e) ==
  Len(e) = Len(d) + m /\ (\A k \in 1..Len(d) : e[k] = d[k]) /\ (\A k \in Len(d) + 1..Len(d) + m : e[k] = "LF")

\* Blank lines add no record.
LEMMA BlankLines ==
  ASSUME org = "LINE", NEW d \in Seq(Cells), NEW e \in Seq(Cells), LineEnds(d), NEW m \in Nat, BlanksBehind(d, m, e)
  PROVE  LineEnds(e) /\ RecordsOf(e) = RecordsOf(d)
  <1>0. PICK n \in Nat : n = Len(d) /\ Len(e) = n + m /\ (\A k \in 1..n : e[k] = d[k]) /\ (\A k \in n + 1..n + m : e[k] = "LF")
    BY DEF BlanksBehind
  <1>1. PICK T : T = {i \in 0..m : LineEnds(SubSeq(e, 1, n + i)) /\ RecordsOf(SubSeq(e, 1, n + i)) = RecordsOf(d)}
    OBVIOUS
  <1>2. 0 \in T
    <2>1. n <= Len(e)
      BY <1>0
    <2>2. PICK s \in Seq(Cells) : s = SubSeq(e, 1, n) /\ Len(s) = n /\ \A k \in 1..n : s[k] = e[k]
      BY <2>1, FrontIs
    <2>3. s = d
      <3>1. Len(s) = Len(d) /\ \A k \in 1..Len(s) : s[k] = d[k]
        BY <1>0, <2>2
      <3> QED BY <3>1, SameSeq
    <2>4. n + 0 = n /\ 0 \in 0..m
      OBVIOUS
    <2> QED BY <1>1, <2>2, <2>3, <2>4
  <1>3. ASSUME NEW i \in 0..(m - 1), i \in T PROVE i + 1 \in T
    <2>1. PICK q \in Nat : q = n + i
      OBVIOUS
    <2>2. q <= Len(e) /\ q + 1 <= Len(e) /\ q + 1 \in n + 1..n + m /\ n + (i + 1) = q + 1 /\ i + 1 \in 0..m
      BY <1>0, <2>1
    <2>3. PICK s \in Seq(Cells) : s = SubSeq(e, 1, q) /\ Len(s) = q /\ \A k \in 1..q : s[k] = e[k]
      <3>1. q <= Len(e)
        BY <2>2
      <3> QED BY <3>1, FrontIs
    <2>4. PICK u \in Seq(Cells) : u = SubSeq(e, 1, q + 1) /\ Len(u) = q + 1 /\ \A k \in 1..(q + 1) : u[k] = e[k]
      <3>1. PICK j \in Nat : j = q + 1 /\ j <= Len(e)
        BY <2>2
      <3>2. \E u \in Seq(Cells) : u = SubSeq(e, 1, j) /\ Len(u) = j /\ \A k \in 1..j : u[k] = e[k]
        BY <3>1, FrontIs
      <3> QED BY <3>1, <3>2
    <2>5. LineEnds(s) /\ RecordsOf(s) = RecordsOf(d)
      BY <1>1, <1>3, <2>1, <2>3
    <2>6. PICK t \in Seq(Cells) : t = <<>> /\ Len(t) = 0
      <3>1. <<>> \in Seq(Cells) /\ Len(<<>>) = 0
        OBVIOUS
      <3> QED BY <3>1
    <2>7. Text(t)
      <3>1. 0 <= RecordMax
        BY SizesAssumption
      <3> QED BY <2>6, <3>1 DEF Text
    <2>8. LineBehind(s, t, u)
      <3>1. u[q + 1] = "LF"
        <4>1. q + 1 \in 1..(q + 1)
          OBVIOUS
        <4>2. e[q + 1] = "LF"
          BY <1>0, <2>2
        <4> QED BY <2>4, <4>1, <4>2
      <3>2. ASSUME NEW k \in 1..q PROVE u[k] = s[k]
        <4>1. k \in 1..(q + 1)
          OBVIOUS
        <4> QED BY <2>3, <2>4, <4>1
      <3> QED BY <2>3, <2>4, <2>6, <3>1, <3>2 DEF LineBehind
    <2>9. LineEnds(u) /\ RecordsOf(u) = RecordsOf(s)
      <3>1. OneLineMore(s, t, u)
        BY <2>5, <2>7, <2>8, LineAdded
      <3> QED BY <2>6, <3>1 DEF OneLineMore
    <2> QED BY <1>1, <2>2, <2>4, <2>5, <2>9
  <1>4. \A i \in 0..m : i \in T
    BY <1>2, <1>3, CountingUp
  <1>5. m \in T
    BY <1>4
  <1>6. SubSeq(e, 1, n + m) = e
    <2>1. PICK q \in Nat : q = n + m
      OBVIOUS
    <2>2. PICK s \in Seq(Cells) : s = SubSeq(e, 1, q) /\ Len(s) = q /\ \A k \in 1..q : s[k] = e[k]
      <3>1. q <= Len(e)
        BY <1>0, <2>1
      <3> QED BY <3>1, FrontIs
    <2>3. s = e
      <3>1. Len(s) = Len(e) /\ \A k \in 1..Len(s) : s[k] = e[k]
        BY <1>0, <2>1, <2>2
      <3> QED BY <3>1, SameSeq
    <2> QED BY <2>1, <2>2, <2>3
  <1> QED BY <1>1, <1>5, <1>6

\* e is d, a blank lines, the line t and b - 1 blank lines.
Written(d, a, t, b, e) ==
  /\ Len(e) = Len(d) + a + Len(t) + b
  /\ \A k \in 1..Len(d) : e[k] = d[k]
  /\ \A k \in Len(d) + 1..Len(d) + a : e[k] = "LF"
  /\ \A k \in 1..Len(t) : e[Len(d) + a + k] = t[k]
  /\ \A k \in Len(d) + a + Len(t) + 1..Len(e) : e[k] = "LF"

LEMMA TextWritten ==
  ASSUME org = "LINE", NEW d \in Seq(Cells), NEW e \in Seq(Cells), NEW t \in Seq(Cells), NEW a \in Nat, NEW b \in Nat, b > 0,
         LineEnds(d), Text(t), Written(d, a, t, b, e)
  PROVE  OneLineMore(d, t, e)
  <1>1. PICK n \in Nat, h \in Nat : n = Len(d) /\ h = Len(t)
    OBVIOUS
  <1>2. PICK i \in Nat, j \in Nat : i = n + a /\ j = i + h + 1 /\ Len(e) = i + h + b
    BY <1>1 DEF Written
  <1>3. i <= Len(e) /\ j <= Len(e) /\ i < j
    BY <1>2
  <1>4. PICK s \in Seq(Cells) : s = SubSeq(e, 1, i) /\ Len(s) = i /\ \A k \in 1..i : s[k] = e[k]
    BY <1>3, FrontIs
  <1>5. PICK u \in Seq(Cells) : u = SubSeq(e, 1, j) /\ Len(u) = j /\ \A k \in 1..j : u[k] = e[k]
    BY <1>3, FrontIs
  <1>6. LineEnds(s) /\ RecordsOf(s) = RecordsOf(d)
    <2>1. ASSUME NEW k \in 1..n PROVE s[k] = d[k]
      <3>1. k \in 1..i
        BY <1>2
      <3>2. e[k] = d[k]
        BY <1>1 DEF Written
      <3> QED BY <1>4, <3>1, <3>2
    <2>2. ASSUME NEW k \in n + 1..n + a PROVE s[k] = "LF"
      <3>1. k \in 1..i
        BY <1>2
      <3>2. e[k] = "LF"
        BY <1>1 DEF Written
      <3> QED BY <1>4, <3>1, <3>2
    <2>3. Len(s) = n + a
      BY <1>2, <1>4
    <2>4. BlanksBehind(d, a, s)
      BY <1>1, <2>1, <2>2, <2>3 DEF BlanksBehind
    <2> QED BY <2>4, BlankLines
  <1>7. LineBehind(s, t, u)
    <2>1. u[j] = "LF"
      <3>1. j \in 1..j /\ j \in i + h + 1..Len(e)
        BY <1>2, <1>3
      <3>2. e[j] = "LF"
        BY <1>1, <1>2, <3>1 DEF Written
      <3> QED BY <1>5, <3>1, <3>2
    <2>2. ASSUME NEW k \in 1..i PROVE u[k] = s[k]
      <3>1. k \in 1..j
        BY <1>3
      <3> QED BY <1>4, <1>5, <3>1
    <2>3. ASSUME NEW k \in 1..h PROVE u[i + k] = t[k]
      <3>1. i + k \in 1..j
        BY <1>2
      <3>2. e[i + k] = t[k]
        BY <1>1, <1>2 DEF Written
      <3> QED BY <1>5, <3>1, <3>2
    <2>4. Len(u) = Len(s) + h + 1
      BY <1>2, <1>4, <1>5
    <2> QED BY <1>1, <1>4, <1>5, <2>1, <2>2, <2>3, <2>4 DEF LineBehind
  <1>8. LineEnds(u) /\ RecordsOf(u) = IF t # <<>> THEN Append(RecordsOf(d), t) ELSE RecordsOf(d)
    <2>1. OneLineMore(s, t, u)
      BY <1>6, <1>7, LineAdded
    <2> QED BY <1>6, <2>1 DEF OneLineMore
  <1>9. PICK m \in Nat : m = b - 1
    OBVIOUS
  <1>10. LineEnds(e) /\ RecordsOf(e) = RecordsOf(u)
    <2>1. Len(e) = j + m
      BY <1>2, <1>9
    <2>2. ASSUME NEW k \in 1..j PROVE e[k] = u[k]
      BY <1>5
    <2>3. ASSUME NEW k \in j + 1..j + m PROVE e[k] = "LF"
      <3>1. k \in i + h + 1..Len(e)
        BY <1>2, <2>1
      <3> QED BY <1>1, <1>2, <3>1 DEF Written
    <2>4. BlanksBehind(u, m, e)
      BY <1>5, <2>1, <2>2, <2>3 DEF BlanksBehind
    <2> QED BY <1>8, <2>4, BlankLines
  <1> QED BY <1>8, <1>10 DEF OneLineMore

\* The file as CLOSE leaves it: a line that is not ended yet is ended.
Whole(d, open) == IF open THEN Append(d, "LF") ELSE d

LEMMA WholeIs ==
  ASSUME NEW d \in Seq(Cells)
  PROVE  /\ Whole(d, FALSE) = d /\ Whole(d, TRUE) \in Seq(Cells) /\ Len(Whole(d, TRUE)) = Len(d) + 1
         /\ Whole(d, TRUE)[Len(d) + 1] = "LF" /\ \A k \in 1..Len(d) : Whole(d, TRUE)[k] = d[k]
  <1>1. "LF" \in Cells
    BY DEF Cells
  <1> QED BY <1>1 DEF Whole

\* e is d, n > 0 blank lines and the line t, which is not ended.
OpenLine(d, n, t, e) ==
  /\ n > 0 /\ Len(e) = Len(d) + n + Len(t)
  /\ \A k \in 1..Len(d) : e[k] = d[k]
  /\ \A k \in Len(d) + 1..Len(d) + n : e[k] = "LF"
  /\ \A k \in 1..Len(t) : e[Len(d) + n + k] = t[k]

\* WRITE AFTER.
LEMMA OpenLineWritten ==
  ASSUME org = "LINE", NEW d \in Seq(Cells), NEW e \in Seq(Cells), NEW t \in Seq(Cells), NEW n \in Nat, NEW open \in BOOLEAN,
         LineEnds(Whole(d, open)), Text(t), OpenLine(d, n, t, e)
  PROVE  OneLineMore(Whole(d, open), t, Whole(e, TRUE))
  <1>1. PICK i \in Nat, h \in Nat : i = Len(d) /\ h = Len(t)
    OBVIOUS
  <1>2. /\ n > 0 /\ Len(e) = i + n + h
        /\ \A k \in 1..i : e[k] = d[k]
        /\ \A k \in i + 1..i + n : e[k] = "LF"
        /\ \A k \in 1..h : e[i + n + k] = t[k]
    BY <1>1 DEF OpenLine
  <1>3. PICK f \in Seq(Cells) : /\ f = Whole(e, TRUE) /\ Len(f) = i + n + h + 1 /\ f[i + n + h + 1] = "LF"
                                /\ \A k \in 1..i + n + h : f[k] = e[k]
    <2>1. PICK f \in Seq(Cells) : f = Whole(e, TRUE)
      BY WholeIs
    <2>2. Len(f) = Len(e) + 1 /\ f[Len(e) + 1] = "LF" /\ \A k \in 1..Len(e) : f[k] = e[k]
      BY <2>1, WholeIs
    <2> QED BY <1>2, <2>1, <2>2
  <1>4. ASSUME NEW k \in 1..i PROVE f[k] = d[k]
    <2>1. k \in 1..i + n + h
      BY <1>2
    <2> QED BY <1>2, <1>3, <2>1
  <1>5. ASSUME NEW k \in i + 1..i + n PROVE f[k] = "LF"
    <2>1. k \in 1..i + n + h
      BY <1>2
    <2> QED BY <1>2, <1>3, <2>1
  <1>6. ASSUME NEW k \in 1..h PROVE f[i + n + k] = t[k]
    <2>1. i + n + k \in 1..i + n + h
      BY <1>2
    <2> QED BY <1>2, <1>3, <2>1
  <1>7. CASE ~open
    <2>1. Whole(d, open) = d
      BY <1>7, WholeIs
    <2>2. Written(d, n, t, 1, f)
      <3>1. ASSUME NEW k \in i + n + h + 1..i + n + h + 1 PROVE f[k] = "LF"
        <4>1. k = i + n + h + 1
          OBVIOUS
        <4> QED BY <1>3, <4>1
      <3> QED BY <1>1, <1>3, <1>4, <1>5, <1>6, <3>1 DEF Written
    <2>3. 1 \in Nat /\ 1 > 0
      OBVIOUS
    <2>4. OneLineMore(d, t, f)
      BY <2>1, <2>2, <2>3, TextWritten
    <2> QED BY <1>3, <2>1, <2>4
  <1>8. CASE open
    <2>1. PICK g \in Seq(Cells) : g = Whole(d, open) /\ Len(g) = i + 1 /\ g[i + 1] = "LF" /\ \A k \in 1..i : g[k] = d[k]
      BY <1>1, <1>8, WholeIs
    <2>2. PICK a \in Nat : n = a + 1
      <3>1. n - 1 \in Nat /\ n = (n - 1) + 1
        BY <1>2
      <3> QED BY <3>1
    <2>3. Written(g, a, t, 1, f)
      <3>1. PICK j \in Nat : j = i + 1 /\ Len(g) = j /\ j + a = i + n
        BY <2>1, <2>2
      <3>2. Len(f) = j + a + h + 1
        BY <1>3, <3>1
      <3>3. ASSUME NEW k \in 1..j PROVE f[k] = g[k]
        <4>1. CASE k \in 1..i
          BY <1>4, <2>1, <4>1
        <4>2. CASE k = i + 1
          <5>1. k \in i + 1..i + n
            BY <1>2, <4>2
          <5> QED BY <1>5, <2>1, <4>2, <5>1
        <4> QED BY <3>1, <4>1, <4>2
      <3>4. ASSUME NEW k \in j + 1..j + a PROVE f[k] = "LF"
        <4>1. k \in i + 1..i + n
          BY <3>1
        <4> QED BY <1>5, <4>1
      <3>5. ASSUME NEW k \in 1..h PROVE f[j + a + k] = t[k]
        BY <1>6, <3>1
      <3>6. ASSUME NEW k \in j + a + h + 1..j + a + h + 1 PROVE f[k] = "LF"
        <4>1. k = i + n + h + 1
          BY <3>1
        <4> QED BY <1>3, <4>1
      <3> QED BY <1>1, <3>1, <3>2, <3>3, <3>4, <3>5, <3>6 DEF Written
    <2>4. 1 \in Nat /\ 1 > 0 /\ LineEnds(g)
      BY <2>1
    <2>5. OneLineMore(g, t, f)
      BY <2>3, <2>4, TextWritten
    <2> QED BY <1>3, <2>1, <2>5
  <1> QED BY <1>7, <1>8

-----------------------------------------------------------------------------
(* What WRITE adds to a variable-length file. *)

\* e is d and the record r behind its length.
RecordBehind(d, r, e) ==
  /\ Len(e) = Len(d) + 1 + Len(r) /\ e[Len(d) + 1] = LengthCell(Len(r))
  /\ \A k \in 1..Len(d) : e[k] = d[k]
  /\ \A k \in 1..Len(r) : e[Len(d) + 1 + k] = r[k]

\* A record is the same in a file that goes on behind it.
LEMMA RecordInFront ==
  ASSUME NEW d \in Seq(Cells), NEW e \in Seq(Cells), Len(d) <= Len(e), \A k \in 1..Len(d) : e[k] = d[k],
         NEW x \in Nat, x < Len(d), HasRecord(d, x), Behind(d, x) <= Len(d)
  PROVE  VariableAt(e, x).record = VariableAt(d, x).record
  <1>1. PICK z \in 0..9 : z = LengthIn(d[x + 1])
    BY BehindIs
  <1>2. z \in Nat /\ x + 1 + z <= Len(d)
    BY <1>1 DEF Behind
  <1>3. e[x + 1] = d[x + 1]
    <2>1. x + 1 \in 1..Len(d)
      OBVIOUS
    <2> QED BY <2>1
  <1>4. PICK m \in Nat : m = Smaller(z, RecordMax) /\ m <= z
    <2>1. RecordMax \in Nat
      BY SizesAssumption
    <2>2. Smaller(z, RecordMax) = IF z <= RecordMax THEN z ELSE RecordMax
      BY <1>2, <2>1, SmallerIs
    <2> QED BY <1>2, <2>1, <2>2
  <1>5. SubSeq(d, x + 2, x + 1 + m) = SubSeq(e, x + 2, x + 1 + m)
    <2>1. PICK y \in Nat : y = x + 1
      OBVIOUS
    <2>2. y + m <= Len(d) /\ y + m <= Len(e)
      BY <1>2, <1>4, <2>1
    <2>3. ASSUME NEW k \in 1..m PROVE d[y + k] = e[y + k]
      <3>1. y + k \in 1..Len(d)
        BY <2>2
      <3> QED BY <3>1
    <2>4. AgreeAfter(d, e, x + 1, m)
      BY <2>1, <2>2, <2>3 DEF AgreeAfter
    <2> QED BY <2>4, AgreeRecord
  <1> QED BY <1>1, <1>3, <1>4, <1>5 DEF VariableAt

LEMMA RecordAdded ==
  ASSUME org = "VARIABLE", NEW d \in Seq(Cells), NEW e \in Seq(Cells), NEW r \in Seq(Cells), Sound(d), Len(r) <= RecordMax,
         RecordBehind(d, r, e)
  PROVE  Sound(e) /\ RecordsOf(e) = Append(RecordsOf(d), r)
  <1>1. PICK n \in Nat, h \in Nat : n = Len(d) /\ h = Len(r)
    OBVIOUS
  <1>2. PICK m \in Nat : m = Len(e) /\ m = n + 1 + h
    BY <1>1 DEF RecordBehind
  <1>3. h \in 0..9 /\ h <= RecordMax /\ RecordMax \in Nat
    <2>1. h <= RecordMax
      BY <1>1
    <2>2. RecordMax \in 1..9
      BY SizesAssumption
    <2> QED BY <2>1, <2>2
  <1>4. e[n + 1] \in Lengths /\ LengthIn(e[n + 1]) = h
    BY <1>1, <1>3, DigitsIs DEF RecordBehind
  <1>5. org # "LINE" /\ StartsAre(e, Starts(e)) /\ StartsAre(d, Starts(d))
    <2>1. org # "LINE"
      OBVIOUS
    <2> QED BY <2>1, StartsIs
  <1>6. ASSUME NEW k \in 1..n PROVE e[k] = d[k]
    BY <1>1 DEF RecordBehind
  <1>7. ASSUME NEW x \in 0..n PROVE x \in Starts(d) <=> x \in Starts(e)
    <2>1. ASSUME NEW s \in Starts(d), s < Len(d) PROVE d[s + 1] = e[s + 1]
      <3>1. s \in 0..n
        BY <1>1, <1>5 DEF StartsAre
      <3>2. s + 1 \in 1..n
        BY <1>1, <2>1, <3>1
      <3> QED BY <1>6, <3>2
    <2>2. Len(d) <= Len(e)
      BY <1>1, <1>2
    <2>3. \A p \in 0..Len(d) : p \in Starts(d) <=> p \in Starts(e)
      BY <1>5, <2>1, <2>2, StartsKept
    <2> QED BY <1>1, <2>3
  <1>8. n \in Starts(e) /\ n < Len(e) /\ HasRecord(e, n) /\ Behind(e, n) = m
    <2>1. n \in Starts(d)
      BY <1>1 DEF Sound
    <2>2. n \in Starts(e) /\ n < Len(e)
      BY <1>2, <1>7, <2>1
    <2> QED BY <1>2, <1>4, <2>2 DEF HasRecord, Behind
  <1>9. Sound(e)
    <2>1. m \in Starts(e)
      BY <1>2, <1>5, <1>8 DEF StartsAre
    <2> QED BY <1>2, <2>1 DEF Sound
  <1>10. ASSUME NEW x \in n + 1..m - 1 PROVE x \notin Starts(e)
    <2> SUFFICES ASSUME x \in Starts(e) PROVE FALSE
      OBVIOUS
    <2>1. n < x
      OBVIOUS
    <2>2. Behind(e, n) <= x
      BY <1>5, <1>8, <2>1, NoneBetween
    <2> QED BY <1>8, <2>2
  <1>11. ASSUME NEW x \in 0..n - 1
         PROVE  (x \in Starts(d) <=> x \in Starts(e)) /\ (x \in Starts(d) => RecordAt(e, x).record = RecordAt(d, x).record)
    <2>1. x \in 0..n /\ x \in Nat /\ x < Len(d) /\ Len(d) <= Len(e)
      BY <1>1, <1>2
    <2>2. ASSUME x \in Starts(d) PROVE VariableAt(e, x).record = VariableAt(d, x).record
      <3>1. HasRecord(d, x) /\ Behind(d, x) <= Len(d)
        BY <2>1, <2>2, SoundStarts
      <3>2. \A k \in 1..Len(d) : e[k] = d[k]
        BY <1>1, <1>6
      <3> QED BY <2>1, <3>1, <3>2, RecordInFront
    <2> QED BY <1>7, <2>1, <2>2 DEF RecordAt
  <1>12. VariableAt(e, n).record = r
    <2>1. Smaller(h, RecordMax) = h
      BY <1>3, SmallerIs
    <2>2. PICK j \in Nat : j = n + 1 /\ j + h = m /\ j + 1 = n + 2
      BY <1>2
    <2>3. VariableAt(e, n).record = SubSeq(e, n + 2, n + 1 + h)
      BY <1>4, <2>1 DEF VariableAt
    <2>4. j + h <= Len(e)
      BY <1>2, <2>2
    <2>5. PICK s \in Seq(Cells) : s = SubSeq(e, j + 1, j + h) /\ Len(s) = h /\ \A k \in 1..h : s[k] = e[j + k]
      BY <2>4, PartIs
    <2>6. s = r
      <3>1. ASSUME NEW k \in 1..h PROVE e[j + k] = r[k]
        BY <1>1, <2>2 DEF RecordBehind
      <3>2. Len(s) = Len(r) /\ \A k \in 1..Len(s) : s[k] = r[k]
        BY <1>1, <2>5, <3>1
      <3> QED BY <3>2, SameSeq
    <2>7. j + h = n + 1 + h
      BY <2>2
    <2> QED BY <2>2, <2>3, <2>5, <2>6, <2>7
  <1>13. Extends(d, e, r)
    <2>1. RecordAt(e, n) = VariableAt(e, n)
      BY DEF RecordAt
    <2> QED BY <1>1, <1>2, <1>8, <1>10, <1>11, <1>12, <2>1 DEF Extends
  <1>14. RecordsOf(e) = Append(RecordsOf(d), r)
    BY <1>13, OneMore
  <1> QED BY <1>9, <1>14

-----------------------------------------------------------------------------
(* What has been written since OPEN OUTPUT. *)

LineWritten(d, open, w) == LineEnds(Whole(d, open)) /\ RecordsOf(Whole(d, open)) = w
VariableWritten(d, w) == Sound(d) /\ RecordsOf(d) = w

WInv ==
  mode = "OUTPUT" =>
    /\ org = "LINE" => overprint \/ LineWritten(bytes, needsNl, wrote)
    /\ org = "VARIABLE" => ~needsNl /\ VariableWritten(bytes, wrote)

LEMMA WrittenPrimes ==
  ASSUME UNCHANGED settings, NEW d, NEW open, NEW w
  PROVE  (LineWritten(d, open, w)' <=> LineWritten(d, open, w)) /\ (VariableWritten(d, w)' <=> VariableWritten(d, w))
         /\ RecordsOf(d)' = RecordsOf(d)
  <1>1. org' = org /\ split' = split
    BY DEF settings
  <1>2. ASSUME NEW c PROVE RecordsOf(c)' = RecordsOf(c)
    BY <1>1 DEF RecordsOf, RecordAt, Starts, LineAt, VariableAt
  <1>3. Sound(d)' <=> Sound(d)
    BY Primes
  <1> QED BY <1>2, <1>3 DEF LineWritten, VariableWritten

\* The state as constants.
LEMMA WInvIs ==
  ASSUME UNCHANGED settings, NEW d, NEW open, NEW w, d = bytes', open = needsNl', w = wrote',
         mode' = "OUTPUT" => /\ org = "LINE" => overprint' \/ LineWritten(d, open, w)
                             /\ org = "VARIABLE" => ~open /\ VariableWritten(d, w)
  PROVE  WInv'
  <1>1. org' = org
    BY DEF settings
  <1>2. (LineWritten(d, open, w)' <=> LineWritten(d, open, w)) /\ (VariableWritten(d, w)' <=> VariableWritten(d, w))
    BY WrittenPrimes
  <1>3. ASSUME mode' = "OUTPUT", org' = "LINE" PROVE overprint' \/ LineWritten(bytes, needsNl, wrote)'
    BY <1>1, <1>2, <1>3
  <1>4. ASSUME mode' = "OUTPUT", org' = "VARIABLE" PROVE ~needsNl' /\ VariableWritten(bytes, wrote)'
    BY <1>1, <1>2, <1>4
  <1> QED BY <1>3, <1>4 DEF WInv

\* A step that writes nothing.
LEMMA QuietWritten ==
  ASSUME WInv, UNCHANGED <<settings, files, cur, mode, needsNl, wrote, overprint>>
  PROVE  WInv'
  <1>1. bytes' = bytes
    BY DEF bytes
  <1>2. PICK d, open, w : d = bytes' /\ open = needsNl' /\ w = wrote'
    OBVIOUS
  <1>3. d = bytes /\ open = needsNl /\ w = wrote
    BY <1>1, <1>2
  <1>4. mode' = "OUTPUT" => /\ org = "LINE" => overprint' \/ LineWritten(d, open, w)
                            /\ org = "VARIABLE" => ~open /\ VariableWritten(d, w)
    BY <1>3 DEF WInv
  <1> QED BY <1>2, <1>4, WInvIs

LEMMA EmptyWritten ==
  ASSUME org \in Organizations
  PROVE  /\ LineWritten(<<>>, FALSE, <<>>)
         /\ org = "VARIABLE" => VariableWritten(<<>>, <<>>)
  <1>1. PICK d \in Seq(Cells) : d = <<>> /\ Len(d) = 0
    <2>1. <<>> \in Seq(Cells) /\ Len(<<>>) = 0
      OBVIOUS
    <2> QED BY <2>1
  <1>2. RecordsOf(d) = <<>>
    <2>1. PICK n \in Nat : n = Len(d) /\ n = 0
      BY <1>1
    <2> QED BY <2>1, RecordsAre
  <1>3. LineWritten(d, FALSE, <<>>)
    BY <1>1, <1>2, WholeIs DEF LineWritten, LineEnds
  <1>4. ASSUME org = "VARIABLE" PROVE VariableWritten(d, <<>>)
    <2>1. org # "LINE"
      BY <1>4
    <2>2. 0 \in Starts(d)
      BY <2>1, StartsIs DEF StartsAre
    <2> QED BY <1>1, <1>2, <2>2 DEF VariableWritten, Sound
  <1> QED BY <1>1, <1>3, <1>4

LEMMA OpenWritten ==
  ASSUME IInv, NEW m \in {"INPUT", "OUTPUT", "I-O", "EXTEND"}, CobOpen(m)
  PROVE  WInv'
  <1>1. UNCHANGED <<settings, needsNl>> /\ mode = "CLOSED" /\ wrote' = <<>> /\ cur' = 1
        /\ files' = (IF m = "OUTPUT" THEN <<<<>>>> ELSE files) /\ mode' \in {m, "CLOSED"}
    BY DEF CobOpen
  <1>2. needsNl = FALSE
    BY <1>1 DEF IInv, Types, ModeTypes, Control, WriteModes
  <1>3. CASE mode' # "OUTPUT"
    BY <1>3 DEF WInv
  <1>4. CASE mode' = "OUTPUT"
    <2>1. files' = <<<<>>>> /\ bytes' = <<>>
      BY <1>1, <1>4 DEF bytes
    <2>2. org \in Organizations
      BY DEF IInv, Types, FileTypes
    <2>3. PICK d, open, w : d = <<>> /\ open = FALSE /\ w = <<>>
      OBVIOUS
    <2>4. LineWritten(d, open, w) /\ (org = "VARIABLE" => VariableWritten(d, w))
      BY <2>2, <2>3, EmptyWritten
    <2>5. d = bytes' /\ open = needsNl' /\ w = wrote'
      BY <1>1, <1>2, <2>1, <2>3
    <2> QED BY <1>1, <2>3, <2>4, <2>5, WInvIs
  <1> QED BY <1>3, <1>4

-----------------------------------------------------------------------------
(* WRITE. *)

LEMMA LineWrites ==
  ASSUME IInv, WInv, LinesAdvance, mode = "OUTPUT", UNCHANGED <<settings, cur, mode>>, org = "LINE",
         NEW rec \in Records, NEW adv \in Advances, LineseqWrite(rec, adv)
  PROVE  WInv'
  <1>1. mode \in WriteModes /\ bytes \in Seq(Cells) /\ needsNl \in BOOLEAN /\ cur = 1
    BY DEF WriteModes, IInv, Types, FileTypes, ModeTypes, Control, bytes
  <1>2. rec \in Seq(Cells) /\ Len(rec) \in 0..RecordMax /\ \A k \in 1..Len(rec) : rec[k] # "LF"
    BY RecIs
  <1>3. PICK t \in Seq(Cells) : /\ t = Trimmed(rec) /\ Len(t) = LineseqSize(rec) /\ LineseqSize(rec) \in 0..Len(rec)
                                /\ \A k \in 1..LineseqSize(rec) : t[k] = rec[k]
    BY <1>2, TrimmedIs
  <1>4. adv.lines > 0 /\ adv.phrase \in {"BEFORE", "AFTER"}
    BY AdvancesAssumption DEF LinesAdvance
  <1>5. PICK n \in Nat : n = adv.lines /\ n > 0
    BY <1>4, NewlinesIs
  <1>6. PICK u \in Seq(Cells) : u = Advance(adv) /\ Len(u) = n /\ \A k \in 1..n : u[k] = "LF"
    BY <1>4, <1>5, NewlinesIs
  <1>7. PICK bad \in BOOLEAN : bad <=> \E k \in DOMAIN Trimmed(rec) : IsBadChar(Trimmed(rec)[k])
    OBVIOUS
  <1>8. PICK cells : cells = IF bad THEN (IF adv.phrase = "AFTER" THEN u ELSE <<>>)
                             ELSE (IF adv.phrase = "AFTER" THEN u ELSE <<>>) \o t \o (IF adv.phrase = "BEFORE" THEN u ELSE <<>>)
    OBVIOUS
  <1>9. /\ Appends(cells) /\ needsNl' = (adv.phrase = "AFTER" \/ (bad /\ needsNl))
        /\ wrote' = (IF bad \/ t = <<>> THEN wrote ELSE Append(wrote, t))
        /\ overprint' = (overprint \/ (adv.phrase = "BEFORE" /\ needsNl))
    BY <1>3, <1>6, <1>7, <1>8 DEF LineseqWrite
  <1>10. ~bad => Text(t)
    <2> SUFFICES ASSUME ~bad PROVE Text(t)
      OBVIOUS
    <2>1. PICK l \in Nat, r \in Nat : l = Len(t) /\ r = Len(rec) /\ l <= r /\ r <= RecordMax
      BY <1>2, <1>3, SizesAssumption
    <2>2. ASSUME NEW k \in 1..l PROVE t[k] \notin {"LF", "CR"}
      <3>1. t[k] = rec[k] /\ k \in 1..r
        BY <1>3, <2>1
      <3>2. t[k] # "LF"
        BY <1>2, <2>1, <3>1
      <3>3. ~IsBadChar(t[k])
        BY <1>3, <1>7, <2>1
      <3> QED BY <3>2, <3>3 DEF IsBadChar
    <2> QED BY <2>1, <2>2, SizesAssumption DEF Text
  <1>11. PICK d \in Seq(Cells), open \in BOOLEAN, w \in {wrote} : d = bytes /\ open = needsNl /\ w = wrote
    BY <1>1
  <1>12. overprint \/ LineWritten(d, open, w)
    BY <1>11 DEF WInv
  \* The cells that are added, when nothing is written on the line of another.
  <1>13. ASSUME NEW c \in Seq(Cells), Appends(c)
         PROVE  \E e \in Seq(Cells) : /\ e = bytes' /\ Len(e) = Len(d) + Len(c)
                                      /\ \A k \in 1..Len(d) : e[k] = d[k]
                                      /\ \A k \in 1..Len(c) : e[Len(d) + k] = c[k]
    <2>1. /\ files'[1] \in Seq(Cells) /\ Len(files'[1]) = pos' /\ pos' = Len(bytes) + Len(c)
          /\ \A k \in 1..Len(c) : files'[1][Len(bytes) + k] = c[k]
          /\ \A k \in 1..Len(bytes) : files'[1][k] = bytes[k]
      BY <1>1, <1>13, AppendsIs
    <2>2. bytes' = files'[1]
      BY <1>1 DEF bytes
    <2>3. PICK e \in Seq(Cells) : e = files'[1]
      BY <2>1
    <2> QED BY <1>11, <2>1, <2>2, <2>3
  <1>14. CASE adv.phrase = "BEFORE" /\ needsNl
    <2>1. overprint' /\ org = "LINE"
      BY <1>9, <1>14
    <2>2. org' = "LINE"
      BY <2>1 DEF settings
    <2> QED BY <2>1, <2>2 DEF WInv
  <1>15. CASE adv.phrase = "BEFORE" /\ ~needsNl
    <2>1. needsNl' = FALSE /\ open = FALSE /\ (overprint' <=> overprint)
      BY <1>9, <1>11, <1>15
    <2>2. CASE bad
      <3>1. cells = <<>> /\ wrote' = w
        BY <1>8, <1>9, <1>11, <1>15, <2>2
      <3>2. PICK c \in Seq(Cells) : c = <<>> /\ Len(c) = 0
        <4>1. <<>> \in Seq(Cells) /\ Len(<<>>) = 0
          OBVIOUS
        <4> QED BY <4>1
      <3>3. PICK e \in Seq(Cells) : e = bytes' /\ Len(e) = Len(d) + Len(c) /\ \A k \in 1..Len(d) : e[k] = d[k]
        BY <1>9, <1>13, <3>1, <3>2
      <3>4. Len(e) = Len(d) /\ \A k \in 1..Len(e) : e[k] = d[k]
        BY <3>2, <3>3
      <3>5. e = d
        BY <3>4, SameSeq
      <3>6. d = bytes' /\ open = needsNl' /\ w = wrote'
        BY <2>1, <3>1, <3>3, <3>5
      <3> QED BY <1>12, <2>1, <3>6, WInvIs
    <2>3. CASE ~bad
      <3>1. cells = t \o u
        BY <1>8, <1>15, <2>3
      <3>2. PICK c \in Seq(Cells) : c = t \o u /\ Len(c) = Len(t) + n /\ \A k \in 1..Len(t) + n : c[k] = IF k <= Len(t) THEN t[k] ELSE u[k - Len(t)]
        <4>1. /\ t \o u \in Seq(Cells) /\ Len(t \o u) = Len(t) + Len(u)
              /\ \A k \in 1..Len(t) + Len(u) : (t \o u)[k] = IF k <= Len(t) THEN t[k] ELSE u[k - Len(t)]
          BY ConcatProperties
        <4>2. PICK c \in Seq(Cells) : c = t \o u
          BY <4>1
        <4> QED BY <1>6, <4>1, <4>2
      <3>3. PICK e \in Seq(Cells) : /\ e = bytes' /\ Len(e) = Len(d) + Len(c) /\ \A k \in 1..Len(d) : e[k] = d[k]
                                    /\ \A k \in 1..Len(c) : e[Len(d) + k] = c[k]
        BY <1>9, <1>13, <3>1, <3>2
      <3>4. Written(d, 0, t, n, e)
        <4>1. PICK i \in Nat, h \in Nat : i = Len(d) /\ h = Len(t)
          OBVIOUS
        <4>2. Len(e) = i + h + n
          BY <3>2, <3>3, <4>1
        <4>3. ASSUME NEW k \in 1..h PROVE e[i + k] = t[k]
          <5>1. k \in 1..h + n /\ k <= h
            OBVIOUS
          <5> QED BY <3>2, <3>3, <4>1, <5>1
        <4>4. ASSUME NEW k \in i + h + 1..i + h + n PROVE e[k] = "LF"
          <5>1. PICK j \in 1..n : k = i + (h + j)
            <6>1. k - (i + h) \in 1..n /\ k = i + (h + (k - (i + h)))
              OBVIOUS
            <6> QED BY <6>1
          <5>2. h + j \in 1..h + n /\ ~(h + j <= h) /\ (h + j) - h = j
            OBVIOUS
          <5>3. c[h + j] = u[j]
            BY <3>2, <4>1, <5>2
          <5>4. e[i + (h + j)] = c[h + j]
            BY <3>2, <3>3, <4>1, <5>2
          <5> QED BY <1>6, <5>1, <5>3, <5>4
        <4>5. /\ Len(e) = i + 0 + h + n /\ \A k \in i + 1..i + 0 : e[k] = "LF"
              /\ \A k \in 1..h : e[i + 0 + k] = t[k] /\ i + 0 = i
          BY <4>2, <4>3
        <4> QED BY <3>3, <4>1, <4>2, <4>4, <4>5 DEF Written
      <3>5. Whole(d, open) = d /\ Whole(e, FALSE) = e
        BY <2>1, WholeIs
      <3>6. PICK v : v = wrote' /\ v = (IF t # <<>> THEN Append(w, t) ELSE w)
        BY <1>9, <1>11, <2>3
      <3>7. overprint \/ LineWritten(e, FALSE, v)
        <4> SUFFICES ASSUME LineWritten(d, open, w) PROVE LineWritten(e, FALSE, v)
          BY <1>12
        <4>1. LineEnds(d) /\ RecordsOf(d) = w
          BY <3>5 DEF LineWritten
        <4>2. 0 \in Nat
          OBVIOUS
        <4>3. LineEnds(e) /\ RecordsOf(e) = IF t # <<>> THEN Append(RecordsOf(d), t) ELSE RecordsOf(d)
          <5>1. OneLineMore(d, t, e)
            BY <1>5, <1>10, <2>3, <3>4, <4>1, <4>2, TextWritten
          <5> QED BY <5>1 DEF OneLineMore
        <4> QED BY <3>5, <3>6, <4>1, <4>3 DEF LineWritten
      <3>8. PICK shut : shut = FALSE
        OBVIOUS
      <3>9. e = bytes' /\ shut = needsNl' /\ v = wrote' /\ (overprint' \/ LineWritten(e, shut, v))
        BY <2>1, <3>3, <3>6, <3>7, <3>8
      <3> QED BY <3>9, WInvIs
    <2> QED BY <2>2, <2>3
  <1>16. CASE adv.phrase = "AFTER"
    <2>1. needsNl' = TRUE /\ (overprint' <=> overprint)
      BY <1>9, <1>16
    <2>2. PICK a \in Seq(Cells) : a = (IF bad THEN <<>> ELSE t) /\ Text(a)
      <3>1. <<>> \in Seq(Cells) /\ Len(<<>>) = 0 /\ 0 <= RecordMax
        BY SizesAssumption
      <3>2. Text(<<>>)
        BY <3>1 DEF Text
      <3> QED BY <1>10, <3>1, <3>2
    <2>3. cells = u \o a
      BY <1>8, <1>16, <2>2
    <2>4. PICK c \in Seq(Cells) : c = u \o a /\ Len(c) = n + Len(a) /\ \A k \in 1..n + Len(a) : c[k] = IF k <= n THEN u[k] ELSE a[k - n]
      <3>1. /\ u \o a \in Seq(Cells) /\ Len(u \o a) = Len(u) + Len(a)
            /\ \A k \in 1..Len(u) + Len(a) : (u \o a)[k] = IF k <= Len(u) THEN u[k] ELSE a[k - Len(u)]
        BY ConcatProperties
      <3>2. PICK c \in Seq(Cells) : c = u \o a
        BY <3>1
      <3> QED BY <1>6, <3>1, <3>2
    <2>5. PICK e \in Seq(Cells) : /\ e = bytes' /\ Len(e) = Len(d) + Len(c) /\ \A k \in 1..Len(d) : e[k] = d[k]
                                  /\ \A k \in 1..Len(c) : e[Len(d) + k] = c[k]
      BY <1>9, <1>13, <2>3, <2>4
    <2>6. OpenLine(d, n, a, e)
      <3>1. PICK i \in Nat, h \in Nat : i = Len(d) /\ h = Len(a)
        OBVIOUS
      <3>2. Len(e) = i + n + h
        BY <2>4, <2>5, <3>1
      <3>3. ASSUME NEW k \in i + 1..i + n PROVE e[k] = "LF"
        <4>1. PICK j \in 1..n : k = i + j
          <5>1. k - i \in 1..n /\ k = i + (k - i)
            OBVIOUS
          <5> QED BY <5>1
        <4>2. j \in 1..n + h /\ j <= n
          OBVIOUS
        <4>3. c[j] = u[j] /\ e[i + j] = c[j]
          BY <2>4, <2>5, <3>1, <4>2
        <4> QED BY <1>6, <4>1, <4>3
      <3>4. ASSUME NEW k \in 1..h PROVE e[i + n + k] = a[k]
        <4>1. n + k \in 1..n + h /\ ~(n + k <= n) /\ (n + k) - n = k /\ i + (n + k) = i + n + k
          OBVIOUS
        <4>2. c[n + k] = a[k]
          BY <2>4, <3>1, <4>1
        <4>3. e[i + (n + k)] = c[n + k]
          BY <2>4, <2>5, <3>1, <4>1
        <4> QED BY <4>1, <4>2, <4>3
      <3> QED BY <1>5, <2>5, <3>1, <3>2, <3>3, <3>4 DEF OpenLine
    <2>7. PICK v : v = wrote' /\ v = (IF a # <<>> THEN Append(w, a) ELSE w)
      BY <1>9, <1>11, <2>2
    <2>8. overprint \/ LineWritten(e, TRUE, v)
      <3> SUFFICES ASSUME LineWritten(d, open, w) PROVE LineWritten(e, TRUE, v)
        BY <1>12
      <3>1. LineEnds(Whole(d, open)) /\ RecordsOf(Whole(d, open)) = w
        BY DEF LineWritten
      <3>2. OneLineMore(Whole(d, open), a, Whole(e, TRUE))
        BY <2>2, <2>6, <3>1, OpenLineWritten
      <3> QED BY <2>7, <3>1, <3>2 DEF LineWritten, OneLineMore
    <2>9. PICK opened : opened = TRUE
      OBVIOUS
    <2>10. e = bytes' /\ opened = needsNl' /\ v = wrote' /\ (overprint' \/ LineWritten(e, opened, v))
      BY <2>1, <2>5, <2>7, <2>8, <2>9
    <2> QED BY <2>10, WInvIs
  <1> QED BY <1>4, <1>14, <1>15, <1>16

LEMMA VariableWrites ==
  ASSUME IInv, WInv, mode = "OUTPUT", UNCHANGED <<settings, cur, mode>>, org = "VARIABLE",
         NEW rec \in Records, SequentialWrite(rec)
  PROVE  WInv'
  <1>1. mode \in WriteModes /\ bytes \in Seq(Cells) /\ cur = 1
    BY DEF WriteModes, IInv, Types, FileTypes, Control, bytes
  <1>2. PICK r \in Seq(Cells) : r = rec /\ Len(r) \in 0..RecordMax /\ Len(r) \in 0..9
    BY RecIs
  <1>3. PICK h \in Nat : h = Len(r) /\ h <= RecordMax /\ h \in 0..9
    BY <1>2, SizesAssumption
  <1>4. PICK l \in Seq(Cells) : l = <<LengthCell(h)>> /\ Len(l) = 1 /\ l[1] = LengthCell(h)
    <2>1. LengthCell(h) \in Cells
      BY <1>3, DigitsIs DEF Cells
    <2>2. <<LengthCell(h)>> \in Seq(Cells)
      BY <2>1
    <2>3. Len(<<LengthCell(h)>>) = 1 /\ <<LengthCell(h)>>[1] = LengthCell(h)
      OBVIOUS
    <2> QED BY <2>2, <2>3
  <1>5. PICK c \in Seq(Cells) : c = l \o r /\ Len(c) = 1 + h /\ \A k \in 1..1 + h : c[k] = IF k <= 1 THEN l[k] ELSE r[k - 1]
    <2>1. /\ l \o r \in Seq(Cells) /\ Len(l \o r) = Len(l) + Len(r)
          /\ \A k \in 1..Len(l) + Len(r) : (l \o r)[k] = IF k <= Len(l) THEN l[k] ELSE r[k - Len(l)]
      BY ConcatProperties
    <2>2. PICK c \in Seq(Cells) : c = l \o r
      BY <2>1
    <2> QED BY <1>3, <1>4, <2>1, <2>2
  <1>6. Appends(c) /\ wrote' = Append(wrote, r) /\ needsNl' = needsNl
    BY <1>2, <1>3, <1>4, <1>5 DEF SequentialWrite
  <1>7. PICK d \in Seq(Cells), open \in {needsNl}, w \in {wrote} : d = bytes /\ open = needsNl /\ w = wrote
    BY <1>1
  <1>8. ~open /\ Sound(d) /\ RecordsOf(d) = w
    BY <1>7 DEF WInv, VariableWritten
  <1>9. PICK e \in Seq(Cells) : /\ e = bytes' /\ Len(e) = Len(d) + Len(c) /\ \A k \in 1..Len(d) : e[k] = d[k]
                                /\ \A k \in 1..Len(c) : e[Len(d) + k] = c[k]
    <2>1. /\ files'[1] \in Seq(Cells) /\ Len(files'[1]) = pos' /\ pos' = Len(bytes) + Len(c)
          /\ \A k \in 1..Len(c) : files'[1][Len(bytes) + k] = c[k]
          /\ \A k \in 1..Len(bytes) : files'[1][k] = bytes[k]
      BY <1>1, <1>6, AppendsIs
    <2>2. bytes' = files'[1]
      BY <1>1 DEF bytes
    <2>3. PICK e \in Seq(Cells) : e = files'[1]
      BY <2>1
    <2> QED BY <1>7, <2>1, <2>2, <2>3
  <1>10. RecordBehind(d, r, e)
    <2>1. PICK i \in Nat : i = Len(d)
      OBVIOUS
    <2>2. Len(e) = i + 1 + h
      <3>1. Len(c) = 1 + h
        BY <1>5
      <3>2. Len(e) = i + Len(c)
        BY <1>9, <2>1
      <3>3. i + (1 + h) = i + 1 + h
        OBVIOUS
      <3> QED BY <3>1, <3>2, <3>3
    <2>3. e[i + 1] = LengthCell(h)
      <3>1. 1 \in 1..1 + h /\ 1 <= 1
        OBVIOUS
      <3>2. c[1] = l[1] /\ e[i + 1] = c[1]
        BY <1>5, <1>9, <2>1, <3>1
      <3> QED BY <1>4, <3>2
    <2>4. ASSUME NEW k \in 1..h PROVE e[i + 1 + k] = r[k]
      <3>1. 1 + k \in 1..1 + h /\ ~(1 + k <= 1) /\ (1 + k) - 1 = k /\ i + (1 + k) = i + 1 + k
        OBVIOUS
      <3>2. c[1 + k] = r[k]
        BY <1>5, <3>1
      <3>3. e[i + (1 + k)] = c[1 + k]
        BY <1>5, <1>9, <2>1, <3>1
      <3> QED BY <3>1, <3>2, <3>3
    <2> QED BY <1>3, <1>9, <2>1, <2>2, <2>3, <2>4 DEF RecordBehind
  <1>11. Sound(e) /\ RecordsOf(e) = Append(w, r)
    <2>1. Len(r) <= RecordMax
      BY <1>3
    <2> QED BY <1>8, <1>10, <2>1, RecordAdded
  <1>12. PICK v : v = wrote' /\ v = Append(w, r)
    BY <1>6, <1>7
  <1>13. e = bytes' /\ open = needsNl' /\ v = wrote' /\ ~open /\ VariableWritten(e, v)
    BY <1>6, <1>7, <1>8, <1>9, <1>11, <1>12 DEF VariableWritten
  <1> QED BY <1>13, WInvIs

LEMMA WriteWritten ==
  ASSUME IInv, WInv, LinesAdvance, NEW rec \in Records, NEW adv \in Advances, CobWrite(rec, adv)
  PROVE  WInv'
  <1>1. UNCHANGED <<settings, cur, mode>>
    BY DEF CobWrite
  <1>2. CASE mode # "OUTPUT"
    BY <1>1, <1>2 DEF WInv
  <1>3. CASE mode = "OUTPUT"
    <2>1. \/ \E s : Refused(s)
          \/ org = "VARIABLE" /\ SequentialWrite(rec)
          \/ org = "LINE" /\ LineseqWrite(rec, adv)
      BY <1>3 DEF CobWrite
    <2>2. ASSUME NEW s, Refused(s) PROVE WInv'
      BY <1>1, <2>2, QuietWritten DEF Refused
    <2> QED BY <1>1, <1>3, <2>1, <2>2, LineWrites, VariableWrites
  <1> QED BY <1>2, <1>3

LEMMA StepWritten ==
  ASSUME IInv, WInv, LinesAdvance, [Next]_vars
  PROVE  WInv'
  <1>1. ASSUME NEW m \in {"INPUT", "OUTPUT", "I-O", "EXTEND"}, CobOpen(m) PROVE WInv'
    BY <1>1, OpenWritten
  <1>2. CASE CobOpenAgain \/ CobCloseAgain \/ CobReadRefused
    <2>1. UNCHANGED <<settings, files, cur, mode, needsNl, wrote, overprint>>
      BY <1>2 DEF CobOpenAgain, CobCloseAgain, CobReadRefused, place, ghosts
    <2> QED BY <2>1, QuietWritten
  <1>3. CASE CobClose
    BY <1>3 DEF CobClose, WInv
  <1>4. CASE CobRead \/ GetStep
    <2>1. mode # "OUTPUT"
      BY <1>4 DEF CobRead, CobReadLine, CobReadVariable, MayRead, GetStep, GetEof, GetLineEnd, GetChar, Getting,
                  IInv, Types, Control, Reading, ReadModes
    <2>2. mode' = mode
      BY <1>4 DEF CobRead, CobReadLine, CobReadVariable, GetStep, GetEof, GetLineEnd, GetChar, Getting
    <2> QED BY <2>1, <2>2 DEF WInv
  <1>5. ASSUME NEW rec \in Records, NEW adv \in Advances, CobWrite(rec, adv) PROVE WInv'
    BY <1>5, WriteWritten
  <1>6. ASSUME NEW rec \in Records, CobRewrite(rec) PROVE WInv'
    <2>1. UNCHANGED <<settings, cur, mode, needsNl, wrote, overprint>>
      BY <1>6 DEF CobRewrite, ghosts
    <2>2. CASE mode # "OUTPUT"
      BY <2>1, <2>2 DEF WInv
    <2>3. CASE mode = "OUTPUT"
      <3>1. UNCHANGED files
        BY <1>6, <2>3 DEF CobRewrite, Rewritable
      <3> QED BY <2>1, <3>1, QuietWritten
    <2> QED BY <2>2, <2>3
  <1>7. CASE UNCHANGED vars
    <2>1. UNCHANGED <<settings, files, cur, mode, needsNl, wrote, overprint>>
      BY <1>7 DEF vars, settings
    <2> QED BY <2>1, QuietWritten
  <1> QED BY <1>1, <1>2, <1>3, <1>4, <1>5, <1>6, <1>7 DEF Next

\* CLOSE leaves what was written.
LEMMA ClosesWritten ==
  ASSUME IInv, WInv, CobClose, mode = "OUTPUT", ~overprint
  PROVE  RecordsOf(files'[1]) = wrote
  <1>1. /\ cur = 1 /\ Len(files) = 1 /\ pos = Len(bytes) /\ files \in Seq(Seq(Cells)) /\ bytes \in Seq(Cells) /\ pos \in Nat
        /\ needsNl \in BOOLEAN /\ org \in Organizations
    BY DEF IInv, Types, FileTypes, PlaceTypes, ModeTypes, Control, WriteModes, bytes
  <1>2. files' = IF needsNl THEN [files EXCEPT ![cur] = Put(bytes, pos, <<"LF">>)] ELSE files
    BY DEF CobClose, bytes
  <1>3. CASE ~needsNl
    <2>1. files'[1] = bytes
      BY <1>1, <1>2, <1>3 DEF bytes
    <2>2. Whole(bytes, needsNl) = bytes
      BY <1>1, <1>3, WholeIs
    <2>3. org = "LINE" => RecordsOf(bytes) = wrote
      BY <2>2 DEF WInv, LineWritten
    <2>4. org = "VARIABLE" => RecordsOf(bytes) = wrote
      BY DEF WInv, VariableWritten
    <2> QED BY <1>1, <2>1, <2>3, <2>4 DEF Organizations
  <1>4. CASE needsNl
    <2>1. org = "LINE" /\ LineWritten(bytes, needsNl, wrote)
      BY <1>1, <1>4 DEF WInv, Organizations
    <2>2. PICK d \in Seq(Cells), n \in Nat : d = bytes /\ n = Len(d) /\ n = pos
      BY <1>1
    <2>3. PICK w \in Seq(Cells) : w = <<"LF">> /\ Len(w) = 1 /\ w[1] = "LF"
      <3>1. "LF" \in Cells
        BY DEF Cells
      <3>2. <<"LF">> \in Seq(Cells)
        BY <3>1
      <3>3. Len(<<"LF">>) = 1 /\ <<"LF">>[1] = "LF"
        OBVIOUS
      <3> QED BY <3>2, <3>3
    <2>4. PICK e : e = Put(d, n, w)
      OBVIOUS
    <2>5. /\ e \in Seq(Cells) /\ Len(e) = (IF Len(d) >= n + Len(w) THEN Len(d) ELSE n + Len(w))
          /\ \A k \in 1..Len(e) : e[k] = IF k \in n + 1..n + Len(w) THEN w[k - n]
                                          ELSE IF k <= Len(d) THEN d[k] ELSE "NUL"
      BY <2>4, PutIs
    <2>6. PICK f \in Seq(Cells) : f = Whole(d, TRUE) /\ Len(f) = n + 1 /\ f[n + 1] = "LF" /\ \A k \in 1..n : f[k] = d[k]
      <3>1. Whole(d, TRUE) \in Seq(Cells) /\ Len(Whole(d, TRUE)) = Len(d) + 1 /\ Whole(d, TRUE)[Len(d) + 1] = "LF"
            /\ \A k \in 1..Len(d) : Whole(d, TRUE)[k] = d[k]
        BY WholeIs
      <3>2. PICK f \in Seq(Cells) : f = Whole(d, TRUE)
        BY <3>1
      <3> QED BY <2>2, <3>1, <3>2
    <2>7. Len(e) = n + 1
      <3>1. Len(d) = n /\ Len(w) = 1 /\ ~(n >= n + 1)
        BY <2>2, <2>3
      <3> QED BY <2>5, <3>1
    <2>8. ASSUME NEW k \in 1..n + 1 PROVE e[k] = f[k]
      <3>1. CASE k = n + 1
        <4>1. k \in n + 1..n + 1 /\ k - n = 1
          BY <3>1
        <4>2. e[k] = w[k - n]
          BY <2>3, <2>5, <2>7, <4>1
        <4> QED BY <2>3, <2>6, <3>1, <4>1, <4>2
      <3>2. CASE k \in 1..n
        <4>1. ~(k \in n + 1..n + 1) /\ k <= n
          BY <3>2
        <4>2. e[k] = d[k]
          BY <2>2, <2>3, <2>5, <2>7, <4>1
        <4> QED BY <2>6, <3>2, <4>2
      <3> QED BY <3>1, <3>2
    <2>9. e = f
      <3>1. Len(e) = Len(f) /\ \A k \in 1..Len(e) : e[k] = f[k]
        BY <2>6, <2>7, <2>8
      <3> QED BY <2>5, <3>1, SameSeq
    <2>10. files'[1] = e
      <3>1. files' = [files EXCEPT ![1] = e]
        BY <1>1, <1>2, <1>4, <2>2, <2>3, <2>4
      <3>2. 1 \in DOMAIN files
        BY <1>1
      <3> QED BY <3>1, <3>2
    <2>11. Whole(bytes, needsNl) = f
      BY <1>1, <1>4, <2>2, <2>6
    <2> QED BY <2>1, <2>9, <2>10, <2>11 DEF LineWritten
  <1> QED BY <1>1, <1>3, <1>4

\* What was written since OPEN OUTPUT is what the closed file holds, record by record: for any records and
\* any mixture of BEFORE and AFTER, as long as no record goes on the line of another.
THEOREM WritesReadBack ==
  ASSUME FilesEnd, LinesAdvance
  PROVE  Spec => WhatIsWrittenIsRead
  <1>1. Init => IInv /\ WInv
    <2>1. Init => WInv
      BY DEF Init, WInv
    <2> QED BY <2>1, Begins
  <1>2. IInv /\ WInv /\ [Next]_vars => (IInv /\ WInv)'
    BY StepKeeps, StepWritten
  <1>3. IInv /\ WInv /\ [Next]_vars => [mode = "OUTPUT" /\ mode' = "CLOSED" /\ ~overprint => RecordsOf(files'[1]) = wrote]_vars
    <2> SUFFICES ASSUME IInv, WInv, Next, mode = "OUTPUT", mode' = "CLOSED", ~overprint PROVE RecordsOf(files'[1]) = wrote
      OBVIOUS
    <2>1. CASE CobClose
      BY <2>1, ClosesWritten
    <2>2. ASSUME NEW m \in {"INPUT", "OUTPUT", "I-O", "EXTEND"}, CobOpen(m) PROVE FALSE
      BY <2>2 DEF CobOpen
    <2>3. ASSUME CobOpenAgain \/ CobCloseAgain \/ CobReadRefused PROVE FALSE
      BY <2>3 DEF CobOpenAgain, CobCloseAgain, CobReadRefused
    <2>4. ASSUME CobRead \/ GetStep PROVE FALSE
      BY <2>4 DEF CobRead, CobReadLine, CobReadVariable, GetStep, GetEof, GetLineEnd, GetChar, Getting
    <2>5. ASSUME NEW rec \in Records, NEW adv \in Advances, CobWrite(rec, adv) PROVE FALSE
      BY <2>5 DEF CobWrite
    <2>6. ASSUME NEW rec \in Records, CobRewrite(rec) PROVE FALSE
      BY <2>6 DEF CobRewrite
    <2> QED BY <2>1, <2>2, <2>3, <2>4, <2>5, <2>6 DEF Next
  <1> QED BY <1>1, <1>2, <1>3, PTL DEF Spec, WhatIsWrittenIsRead

=============================================================================
