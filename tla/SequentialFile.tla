---------------------------- MODULE SequentialFile ----------------------------
(***************************************************************************)
(* Sequential files of libcob/fileio.c: LINE SEQUENTIAL files, which       *)
(* lineseq_read takes apart character by character, and SEQUENTIAL files   *)
(* with variable-length records, each behind its length.  One connector;   *)
(* READ may go on into a second file by concatenation.                     *)
(*                                                                         *)
(* A file is a sequence of cells: characters, or the length in front of a  *)
(* record.  The settings are those of Unix: COB_LS_VALIDATE on, COB_LS_NULLS, *)
(* COB_LS_FIXED and COB_LS_USES_CR off.                                    *)
(***************************************************************************)
EXTENDS Integers, Sequences, SequencesExt, FiniteSetsExt

CONSTANTS
  Contents,    \* organization -> what its files may hold at first
  Second,      \* organization -> files that may be concatenated to it
  Records,     \* records in WRITE and REWRITE
  Advances,    \* the ADVANCING phrases: BEFORE or AFTER so many lines
  RecordMax,   \* record_max
  RecordMin,   \* record_min of the variable-length file
  MaxCells     \* bound: length of a file that is written to

\* The cells of a file: characters, the lengths of records, and what a hole holds.
Digits == <<"0", "1", "2", "3", "4", "5", "6", "7", "8", "9">>
Lengths == {Digits[n] : n \in 1..10}
Cells == {"x", "y", " ", "CR", "LF", "NUL"} \cup Lengths

ASSUME ContentsAssumption == \A o \in {"LINE", "VARIABLE"} : Contents[o] \cup Second[o] \subseteq Seq(Cells)
ASSUME SizesAssumption == RecordMin \in 0..RecordMax /\ RecordMax \in 1..9 /\ MaxCells \in Nat
ASSUME RecordsAssumption == Records \subseteq UNION {[1..k -> {"x", "y", " ", "CR"}] : k \in 0..RecordMax}
ASSUME AdvancesAssumption == Advances \subseteq [phrase : {"BEFORE", "AFTER"}, lines : Nat]

VARIABLES
  org,        \* organization
  split,      \* COB_LS_SPLIT
  files,      \* the file, and the one concatenated to it
  cur,        \* which of them is open
  pos,        \* position of the descriptor or the stream
  mode,       \* open_mode
  pc,         \* "getc" in the loop of lineseq_read, "next" when sequential_read has the next file open
  record,     \* the record area, as far as READ has filled it
  recSize,    \* record->size
  recOff,     \* record_off
  readDone,   \* flag_read_done
  eof,        \* flag_end_of_file
  needsNl,    \* flag_needs_nl
  status,     \* file status; within READ that of the record so far
  from,       \* for the properties: where the READ began
  wrote,      \* for the properties: the records written since OPEN that are not blank,
  overprint   \*   and whether one was put behind another on its line

settings == <<org, split>>
place == <<cur, pos>>
flags == <<readDone, eof>>
ghosts == <<from, wrote, overprint>>
vars == <<org, split, files, cur, pos, mode, pc, record, recSize, recOff, readDone, eof, needsNl, status,
          from, wrote, overprint>>

Organizations == {"LINE", "VARIABLE"}
EOF == "EOF"
LengthCell(n) == Digits[n + 1]
LengthIn(cell) == CHOOSE n \in 0..9 : LengthCell(n) = cell
Smaller(a, b) == Min({a, b})

bytes == files[cur]
At(p) == IF p < Len(bytes) THEN bytes[p + 1] ELSE EOF
After(p) == Smaller(p + 1, Len(bytes))          \* the position after a getc () at p
\* A write behind the end leaves a hole.
Put(data, p, new) == [k \in 1..Max({Len(data), p + Len(new)}) |->
                        IF k \in p + 1..p + Len(new) THEN new[k - p]
                        ELSE IF k <= Len(data) THEN data[k] ELSE "NUL"]

Idle == pc = "idle"
IsBadChar(c) == c \in {"CR", "NUL"}                        \* IS_BAD_CHAR, of the cells there are
Returns(s) == status' = s

-----------------------------------------------------------------------------
(* OPEN and CLOSE. *)

Header(data) == data # <<>> /\ data[1] \in Lengths

\* Unless for OUTPUT, OPEN takes the size of the first record from its length, and keeps the
\* size it had when the file is empty.
FirstSize(m, data) == IF org = "VARIABLE" /\ m # "OUTPUT" /\ Header(data) THEN LengthIn(data[1]) ELSE recSize
Fitting(m, data) ==
  org = "VARIABLE" /\ m # "OUTPUT" =>
    (data = <<>> \/ Header(data)) /\ FirstSize(m, data) \in RecordMin..RecordMax

CobOpen(m) ==
  /\ Idle /\ mode = "CLOSED"
  /\ m \in {"OUTPUT", "EXTEND"} => Len(files) = 1
  /\ cur' = 1 /\ recOff' = 0 /\ readDone' = FALSE /\ eof' = FALSE
  /\ files' = IF m = "OUTPUT" THEN <<<<>>>> ELSE files
  /\ recSize' = FirstSize(m, files[1])
  /\ IF Fitting(m, files[1])
     THEN mode' = m /\ pos' = (IF m = "EXTEND" THEN Len(files[1]) ELSE 0) /\ Returns("00")
     ELSE mode' = "CLOSED" /\ pos' = 0 /\ Returns("39")
  /\ wrote' = <<>> /\ overprint' = FALSE
  /\ UNCHANGED <<settings, pc, record, needsNl, from>>

\* OPEN of an open file, CLOSE of a closed one.
CobOpenAgain ==
  /\ Idle /\ mode # "CLOSED" /\ Returns("41")
  /\ UNCHANGED <<settings, files, place, mode, pc, record, recSize, recOff, flags, needsNl, ghosts>>

CobCloseAgain ==
  /\ Idle /\ mode = "CLOSED" /\ readDone' = FALSE /\ Returns("42")
  /\ UNCHANGED <<settings, files, place, mode, pc, record, recSize, recOff, eof, needsNl, ghosts>>

\* After WRITE AFTER the last line is not ended yet.
CobClose ==
  /\ Idle /\ mode # "CLOSED"
  /\ files' = IF needsNl THEN [files EXCEPT ![cur] = Put(@, pos, <<"LF">>)] ELSE files
  /\ needsNl' = FALSE /\ mode' = "CLOSED" /\ readDone' = FALSE /\ cur' = 1 /\ pos' = 0
  /\ Returns("00")
  /\ UNCHANGED <<settings, pc, record, recSize, recOff, eof, ghosts>>

-----------------------------------------------------------------------------
(* READ. *)

Good == {"00", "04", "06", "09"}

\* mutant: the end of the file is not remembered
ReadStatusEndless(s) == Returns(s) /\ readDone' = (s \in Good) /\ eof' = eof

\* The end of cob_read.
ReadStatus(s) ==
  /\ Returns(s)
  /\ readDone' = (s \in Good)
  /\ eof' = CASE s \in Good -> FALSE [] s = "10" -> TRUE [] OTHER -> eof

MayRead == Idle /\ mode \in {"INPUT", "I-O"}

CobReadRefused ==
  /\ Idle /\ (mode \in {"INPUT", "I-O"} => eof)
  /\ readDone' = FALSE /\ Returns(IF eof /\ mode \in {"INPUT", "I-O"} THEN "46" ELSE "47")
  /\ UNCHANGED <<settings, files, place, mode, pc, record, recSize, recOff, eof, needsNl, ghosts>>

CobReadLine ==
  /\ MayRead /\ org = "LINE" /\ ~eof
  /\ pc' = "getc" /\ record' = <<>> /\ from' = pos
  /\ recOff' = IF mode = "I-O" THEN pos ELSE recOff
  /\ readDone' = FALSE /\ Returns("00")
  /\ UNCHANGED <<settings, files, place, mode, recSize, eof, needsNl, wrote, overprint>>

Getting == pc = "getc" /\ UNCHANGED <<settings, files, mode, needsNl, wrote, overprint>>
Break(p, s) == pc' = "idle" /\ pos' = p /\ recSize' = Len(record') /\ ReadStatus(s) /\ UNCHANGED <<cur, from, recOff>>

\* EOF: the end of a last line without LF, the next file, or AT END.
GetEof ==
  /\ Getting /\ At(pos) = EOF
  /\ UNCHANGED record
  /\ \/ record # <<>> /\ Break(pos, status)
     \/ /\ record = <<>> /\ cur < Len(files)
        /\ cur' = cur + 1 /\ pos' = 0 /\ from' = 0
        /\ recOff' = IF mode = "I-O" THEN 0 ELSE recOff
        /\ UNCHANGED <<pc, recSize, flags, status>>
     \/ /\ record = <<>> /\ cur = Len(files)
        /\ pc' = "idle" /\ ReadStatus("10")
        /\ UNCHANGED <<place, recSize, recOff, from>>

\* A CR is dropped before LF.
GetLineEnd ==
  /\ Getting
  /\ UNCHANGED record
  /\ \/ At(pos) = "LF" /\ Break(pos + 1, status)
     \/ At(pos) = "CR" /\ At(pos + 1) = "LF" /\ Break(pos + 2, status)

\* mutant: the character behind a CR is taken too
AfterCharLost(p) == IF At(p) = "CR" THEN After(After(p)) ELSE p + 1

\* Where fseek (fp, -1) after the look behind a CR leaves the stream: a getc () at the end
\* of the file has not moved it.
AfterChar(p) == IF At(p) = "CR" THEN After(After(p)) - 1 ELSE p + 1

\* The look ahead when the record is full and COB_LS_SPLIT is set, from position p.
Ahead(p) ==
  LET k == IF At(p) = "CR" THEN 2 ELSE 1
      n == IF At(p) = "CR" THEN At(p + 1) ELSE At(p)
      behind == IF At(p) = "CR" THEN After(After(p)) ELSE After(p)
  IN IF n = "LF" THEN [pos |-> behind, more |-> FALSE]
     ELSE [pos |-> IF behind >= k THEN behind - k ELSE behind, more |-> TRUE]

Validated(c) == IF IsBadChar(c) THEN "09" ELSE status

Full == Len(record) = RecordMax

Taken(c) == IF Full THEN record ELSE Append(record, c)

GetChar ==
  /\ Getting
  /\ At(pos) \notin {EOF, "LF"} /\ ~(At(pos) = "CR" /\ At(pos + 1) = "LF")
  /\ LET c == At(pos)  p == AfterChar(pos) IN
     /\ record' = Taken(c)
     /\ IF Len(record) + 1 = RecordMax /\ split
        THEN Break(Ahead(p).pos, IF Ahead(p).more THEN "06" ELSE Validated(c))
        ELSE /\ pos' = p
             /\ Returns(IF Full THEN "04" ELSE Validated(c))
             /\ UNCHANGED <<cur, pc, recSize, recOff, flags, from>>

\* bytes_to_skip
Skip(size, data) == IF size > RecordMax /\ data # <<>> THEN size - RecordMax ELSE 0

\* The record at the position, also the first of the next file.
CobReadVariable ==
  /\ org = "VARIABLE" /\ (pc = "next" \/ (MayRead /\ ~eof))
  /\ LET size == LengthIn(At(pos))
         last == Smaller(pos + 1 + Smaller(size, RecordMax), Len(bytes))   \* as far as there is any
         data == SubSeq(bytes, pos + 2, last)
     IN \/ /\ At(pos) = EOF /\ cur < Len(files)
           /\ cur' = cur + 1 /\ pos' = 0 /\ from' = 0 /\ pc' = "next" /\ readDone' = FALSE
           /\ UNCHANGED <<record, recSize, status, eof>>
        \/ /\ At(pos) = EOF /\ cur = Len(files)
           /\ ReadStatus("10") /\ pc' = "idle" /\ from' = pos
           /\ UNCHANGED <<place, record, recSize>>
        \/ /\ At(pos) \notin Lengths \cup {EOF}
           /\ ReadStatus("39") /\ pos' = pos + 1 /\ pc' = "idle" /\ from' = pos
           /\ UNCHANGED <<cur, record, recSize>>
        \/ /\ At(pos) \in Lengths
           /\ record' = data /\ recSize' = Len(data) /\ pc' = "idle" /\ from' = pos
           /\ pos' = pos + 1 + Len(data) + Skip(size, data)
           /\ ReadStatus(IF size \in RecordMin..RecordMax /\ (data # <<>> \/ size = 0) THEN "00" ELSE "04")
           /\ UNCHANGED cur
  /\ UNCHANGED <<settings, files, mode, recOff, needsNl, wrote, overprint>>

CobRead == CobReadLine \/ CobReadVariable
GetStep == GetEof \/ GetLineEnd \/ GetChar

-----------------------------------------------------------------------------
(* WRITE.  A record is what the program has moved to the record area; the    *)
(* area of a LINE SEQUENTIAL file is padded with spaces, so they are not     *)
(* written at its end.                                                       *)

LineseqSize(rec) == Max({0} \cup {k \in 1..Len(rec) : rec[k] # " "})
Trimmed(rec) == SubSeq(rec, 1, LineseqSize(rec))
SizeOf(rec) == IF org = "LINE" THEN LineseqSize(rec) ELSE Len(rec)
Newlines(n) == [k \in 1..n |-> "LF"]
Spaces(n) == [k \in 1..n |-> " "]

\* mutant: one line too few
AdvanceLess(adv) == IF adv.lines = 0 THEN <<"CR">> ELSE Newlines(adv.lines - 1)

\* cob_file_write_opt
Advance(adv) == IF adv.lines = 0 THEN <<"CR">> ELSE Newlines(adv.lines)

\* A new record replaces what is in the record area.
Fills(rec) == record' = rec /\ recSize' = SizeOf(rec)

Appends(cells) ==
  LET new == Put(bytes, pos, cells) IN
  Len(new) <= MaxCells /\ files' = [files EXCEPT ![cur] = new] /\ pos' = pos + Len(cells)

LineseqWrite(rec, adv) ==
  LET text == Trimmed(rec)
      before == IF adv.phrase = "AFTER" THEN Advance(adv) ELSE <<>>
      after == IF adv.phrase = "BEFORE" THEN Advance(adv) ELSE <<>>
      bad == \E k \in DOMAIN text : IsBadChar(text[k])
  IN /\ Appends(IF bad THEN before ELSE before \o text \o after)
     /\ needsNl' = (adv.phrase = "AFTER" \/ (bad /\ needsNl))
     /\ Returns(IF bad THEN "71" ELSE "00")
     /\ wrote' = IF bad \/ text = <<>> THEN wrote ELSE Append(wrote, text)
     /\ overprint' = (overprint \/ (adv.phrase = "BEFORE" /\ needsNl))

SequentialWrite(rec) ==
  /\ Appends(<<LengthCell(Len(rec))>> \o rec)
  /\ Returns("00")
  /\ wrote' = Append(wrote, rec)
  /\ UNCHANGED <<needsNl, overprint>>

Refused(s) == Returns(s) /\ UNCHANGED <<files, pos, needsNl, wrote, overprint>>
TooShort(rec) == org = "VARIABLE" /\ Len(rec) < RecordMin

CobWrite(rec, adv) ==
  /\ Idle
  /\ readDone' = FALSE
  /\ \/ mode \notin {"OUTPUT", "EXTEND"} /\ Refused("48") /\ UNCHANGED <<record, recSize>>
     \/ /\ mode \in {"OUTPUT", "EXTEND"} /\ Fills(rec)
        /\ \/ TooShort(rec) /\ Refused("44")
           \/ ~TooShort(rec) /\ org = "VARIABLE" /\ SequentialWrite(rec)
           \/ ~TooShort(rec) /\ org = "LINE" /\ LineseqWrite(rec, adv)
  /\ UNCHANGED <<settings, cur, mode, pc, recOff, eof, from>>

-----------------------------------------------------------------------------
(* REWRITE. *)

\* mutant: the LF of the line counts
SlotLenWithLf == pos - recOff

\* Cells of the line last read, without its LF.
SlotLen == pos - recOff - 1
OverRecord(text) == files' = [files EXCEPT ![cur] = Put(@, recOff, text)]

LineseqRewrite(rec) ==
  LET text == Trimmed(rec)  size == Len(text)
      bad == \E k \in DOMAIN text : IsBadChar(text[k])
  IN \/ size > SlotLen /\ Returns("44") /\ UNCHANGED <<files, pos>>
     \/ size <= SlotLen /\ bad /\ Returns("71") /\ pos' = recOff /\ UNCHANGED files
     \/ size <= SlotLen /\ size = 0 /\ Returns("00") /\ UNCHANGED <<files, pos>>
     \/ /\ size \in 1..SlotLen /\ ~bad
        /\ OverRecord(text \o Spaces(SlotLen - size))
        /\ Returns("00") /\ UNCHANGED pos

SequentialRewrite(rec) ==
  /\ files' = [files EXCEPT ![cur] = Put(@, pos - Len(rec), rec)]
  /\ Returns("00") /\ UNCHANGED pos

Rewritable(rec) == mode = "I-O" /\ readDone /\ (org = "VARIABLE" => recSize = Len(rec))

CobRewrite(rec) ==
  /\ Idle
  /\ readDone' = FALSE
  /\ \/ /\ ~Rewritable(rec)
        /\ Returns(IF mode # "I-O" THEN "49" ELSE IF ~readDone THEN "43" ELSE "44")
        /\ UNCHANGED <<files, pos, record, recSize>>
     \/ /\ Rewritable(rec) /\ Fills(rec)
        /\ \/ org = "LINE" /\ LineseqRewrite(rec)
           \/ org = "VARIABLE" /\ SequentialRewrite(rec)
  /\ UNCHANGED <<settings, cur, mode, pc, recOff, eof, needsNl, ghosts>>

-----------------------------------------------------------------------------
Init ==
  /\ org \in Organizations /\ split \in BOOLEAN
  /\ \E first \in Contents[org] : files \in {<<first>>} \cup {<<first, second>> : second \in Second[org]}
  /\ cur = 1 /\ pos = 0 /\ mode = "CLOSED" /\ pc = "idle"
  /\ record = <<>> /\ recSize = RecordMax /\ recOff = 0
  /\ readDone = FALSE /\ eof = FALSE /\ needsNl = FALSE /\ status = "00"
  /\ from = 0 /\ wrote = <<>> /\ overprint = FALSE

Next ==
  \/ \E m \in {"INPUT", "OUTPUT", "I-O", "EXTEND"} : CobOpen(m)
  \/ CobOpenAgain \/ CobClose \/ CobCloseAgain
  \/ CobReadRefused \/ CobRead \/ GetStep
  \/ \E rec \in Records, adv \in Advances : CobWrite(rec, adv)
  \/ \E rec \in Records : CobRewrite(rec)

Spec == Init /\ [][Next]_vars

\* A program that reads to the end of its file goes on with READ, and READ with getc ().
FairSpec == Spec /\ WF_vars(CobRead \/ GetStep)

-----------------------------------------------------------------------------
(* What a file says: the reference the properties compare with. *)

\* The line at p: up to the next LF, or to the end, and without one CR before the LF.
LineEnd(data, p) == Min({e \in p + 1..Len(data) : data[e] = "LF"} \cup {Len(data) + 1})
LineLen(data, p) ==
  LET e == LineEnd(data, p) IN
  IF e <= Len(data) /\ e > p + 1 /\ data[e - 1] = "CR" THEN e - p - 2 ELSE e - p - 1

LineAt(data, p) ==
  LET n == LineLen(data, p)
      rec == SubSeq(data, p + 1, p + Smaller(n, RecordMax))
  IN [record |-> rec,
      pos |-> IF n > RecordMax /\ split THEN p + RecordMax ELSE Smaller(LineEnd(data, p), Len(data)),
      status |-> IF n > RecordMax THEN IF split THEN "06" ELSE "04"
                 ELSE IF \E k \in DOMAIN rec : IsBadChar(rec[k]) THEN "09" ELSE "00"]

\* The record at p, behind its length.
HasRecord(data, p) == p < Len(data) /\ data[p + 1] \in Lengths
Behind(data, p) == p + 1 + LengthIn(data[p + 1])

VariableAt(data, p) ==
  LET size == LengthIn(data[p + 1])
      rec == SubSeq(data, p + 2, p + 1 + Smaller(size, RecordMax))
  IN [record |-> rec, pos |-> Behind(data, p), status |-> IF size \in RecordMin..RecordMax THEN "00" ELSE "04"]

\* Where the records start; the end counts when the last one is whole.
Starts(data) ==
  IF org = "LINE" THEN {0} \cup {p \in 1..Len(data) : data[p] = "LF"}
  ELSE LET upto[p \in 0..Len(data)] ==
             IF p = 0 THEN {0}
             ELSE upto[p - 1] \cup {k \in {p} : \E q \in upto[p - 1] : HasRecord(data, q) /\ Behind(data, q) = k}
       IN upto[Len(data)]

\* The file is made of records to its end.
Sound(data) == org = "VARIABLE" => Len(data) \in Starts(data)

RecordAt(data, p) == IF org = "LINE" THEN LineAt(data, p) ELSE VariableAt(data, p)

\* The records of all lines that are not blank, or of all lengths.
RecordsOf(data) ==
  LET upto[p \in 0..Len(data)] == \* those that start before p
        IF p = 0 THEN <<>>
        ELSE LET r == RecordAt(data, p - 1).record IN
             IF p - 1 \in Starts(data) /\ (org = "LINE" => r # <<>>) THEN Append(upto[p - 1], r) ELSE upto[p - 1]
  IN upto[Len(data)]

-----------------------------------------------------------------------------
(* Properties. *)

TypeOK ==
  /\ org \in Organizations /\ split \in BOOLEAN
  /\ Len(files) \in 1..2 /\ cur \in DOMAIN files
  /\ \A k \in DOMAIN files : files[k] \in Seq(Cells)
  /\ pos \in Nat /\ recOff \in Nat /\ from \in Nat
  /\ mode \in {"CLOSED", "INPUT", "OUTPUT", "I-O", "EXTEND"}
  /\ pc \in {"idle", "getc", "next"}
  /\ Len(record) <= RecordMax /\ recSize \in 0..9
  /\ readDone \in BOOLEAN /\ eof \in BOOLEAN /\ needsNl \in BOOLEAN
  /\ status \in Good \cup {"10", "39", "41", "42", "43", "44", "46", "47", "48", "49", "71"}

\* A READ that delivers a record delivers the one that begins where it began, with the status
\* the record deserves, and leaves the file at the record behind it: also across a CR that
\* is looked behind, the look ahead at a full record, and the change to the next file.
ReadIsNextRecord ==
  [][ (CobRead \/ GetStep) /\ pc' = "idle" /\ readDone' /\ Sound(bytes) =>
        RecordAt(bytes, from') = [record |-> record', pos |-> pos', status |-> status'] ]_vars

\* The record area behind a READ of a line: padded with spaces.
Area(rec) == [k \in 1..RecordMax |-> IF k <= Len(rec) THEN rec[k] ELSE " "]

\* The record at p is rec, whole.  The slot of a last line without LF is taken for one cell
\* shorter than it is: what stays of the old line there is its last character, and no more.
IsNow(p, rec) ==
  LET again == RecordAt(bytes', p).record IN
  IF org = "VARIABLE" THEN again = rec
  ELSE Area(again) = IF bytes[pos] = "LF" THEN Area(rec) ELSE [Area(rec) EXCEPT ![pos - p] = bytes[pos]]

\* REWRITE replaces the record last read and no other: read again it is the new record, with
\* nothing left of a longer old one but the last character of a file that does not end in LF,
\* and all others are where and what they were.  (A CR in front of the LF becomes a space of
\* the line, which with COB_LS_SPLIT may give a full line a blank rest.)
RewriteReplaces ==
  [][ \A rec \in Records :
        CobRewrite(rec) /\ status' = "00" /\ status \in {"00", "09"} /\ SizeOf(rec) > 0 /\ Sound(bytes) =>
          /\ Starts(bytes') = Starts(bytes)
          /\ \A p \in Starts(bytes) \ {Len(bytes)} :
               IF RecordAt(bytes, p).pos = pos
               THEN IsNow(p, rec)
               ELSE RecordAt(bytes', p) = RecordAt(bytes, p) ]_vars

\* What was written since OPEN OUTPUT is what the closed file gives back, record by record,
\* with BEFORE and AFTER mixed as long as no record goes on the line of another.
WhatIsWrittenIsRead ==
  [][ mode = "OUTPUT" /\ mode' = "CLOSED" /\ ~overprint =>
        RecordsOf(files'[1]) = wrote ]_vars

\* A program that reads to the end gets there.
ReadsEnd == mode = "INPUT" ~> (eof \/ mode # "INPUT")
=============================================================================
