------------------------------- MODULE SortFile -------------------------------
(***************************************************************************)
(* SORT and MERGE of libcob/fileio.c.  Released records are one-record     *)
(* blocks in two queues; when the sort memory is full the queues are sorted*)
(* into one block of a temporary file before each further record.  RETURN  *)
(* and GIVING merge blocks pairwise, from two queues (files) into two      *)
(* others, until two are left, and these while the records are delivered.  *)
(*                                                                         *)
(* A block is a sequence of records, a queue or file a sequence of blocks. *)
(***************************************************************************)
EXTENDS Integers, Sequences

CONSTANTS
  Keys,       \* the values of the key fields: tuples of integers
  Directions, \* "ASC" or "DESC" for each key field
  Capacity,   \* bound: records in sort memory (COB_SORT_MEMORY)
  MaxRecords, \* bound: records released to one SORT
  Files,      \* the number of GIVING files
  MaxFaulty   \* bound: a WRITE of GIVING fails only in a SORT of so many records

\* cob_file_sort_process takes four items for its queues from those it has.
ASSUME CapacityAssumption == Capacity \in Nat /\ Capacity >= 4
\* Each key field orders its values like integers.
ASSUME KeysAssumption == /\ Directions \in Seq({"ASC", "DESC"})
                         /\ Keys \subseteq [1..Len(Directions) -> Int]
ASSUME SizeAssumption == MaxRecords \in Nat /\ Files \in Nat /\ MaxFaulty \in Nat

VARIABLES
  part,       \* where the SORT statement is
  queue,      \* the first two queues of cobsort; the others are empty between calls
  file,       \* the temporary files that are being written
  dest,       \* destination_file, as 1 or 2
  allocated,  \* items allocated in sort memory
  heads,      \* the two blocks that retrieval still merges
  retrieving,
  unique,
  record,     \* the record area of the sort file
  status,     \* its FILE STATUS
  sortReturn, \* SORT-RETURN
  opt,        \* the write option of each GIVING file: -1 not open, -2 given up
  given,      \* what has been written to each GIVING file
  failed,     \* history: records whose WRITE failed, per GIVING file
  toGive      \* history: the records GIVING has to write

cobsort == <<queue, file, dest, allocated, heads, retrieving, unique>>
giving == <<opt, given, failed, toGive>>
vars == <<part, cobsort, record, status, sortReturn, giving>>

-----------------------------------------------------------------------------
(* Blocks. *)

NoBlocks == << <<>>, <<>> >>

BeforeUnstable(a, b) ==   \* mutant: records with equal keys in any order
  \E i \in DOMAIN Directions :
    /\ \A j \in 1..(i - 1) : a.key[j] = b.key[j]
    /\ IF Directions[i] = "ASC" THEN a.key[i] < b.key[i] ELSE a.key[i] > b.key[i]

\* cob_file_sort_compare returns a negative number.
Before(a, b) ==
  \/ \E i \in DOMAIN Directions :
       /\ \A j \in 1..(i - 1) : a.key[j] = b.key[j]
       /\ IF Directions[i] = "ASC" THEN a.key[i] < b.key[i] ELSE a.key[i] > b.key[i]
  \/ a.key = b.key /\ a.unique < b.unique

\* The next record is taken from a, of which i are done, and not from b, of which j are.
FromFirst(a, b, i, j) == i < Len(a) /\ (j = Len(b) \/ Before(a[i + 1], b[j + 1]))

\* Two blocks merged: the first k records, ofA of which are from a.
Merge(a, b) ==
  LET after[k \in 0..(Len(a) + Len(b))] ==
        IF k = 0 THEN [ofA |-> 0, out |-> <<>>]
        ELSE LET l == after[k - 1] IN
             IF FromFirst(a, b, l.ofA, k - 1 - l.ofA)
             THEN [ofA |-> l.ofA + 1, out |-> Append(l.out, a[l.ofA + 1])]
             ELSE [ofA |-> l.ofA, out |-> Append(l.out, b[k - l.ofA])]
  IN  after[Len(a) + Len(b)].out

\* The n-th blocks of two queues merged; a queue that has no such block adds nothing.
Block(q, n) == IF n <= Len(q) THEN q[n] ELSE <<>>
Merged(source, n) == Merge(Block(source[1], n), Block(source[2], n))
Longer(source) == IF Len(source[1]) >= Len(source[2]) THEN Len(source[1]) ELSE Len(source[2])

\* One pass: the n-th blocks of the sources become a block of the destinations, which
\* take turns.
Pass(source) == << [i \in 1..((Longer(source) + 1) \div 2) |-> Merged(source, 2 * i - 1)],
                   [i \in 1..(Longer(source) \div 2) |-> Merged(source, 2 * i)] >>

\* The loops of cob_sort_queues and of cob_file_sort_process go on.
Again(source, files) == IF files THEN Len(source[1]) > 1 ELSE Len(source[2]) > 0

\* The sources after as many passes as there can be.
Passes(source, files) ==
  LET after[i \in 0..Len(source[1])] ==
        IF i = 0 THEN source
        ELSE LET last == after[i - 1] IN IF Again(last, files) THEN Pass(last) ELSE last
  IN  after[Len(source[1])]

\* cob_sort_queues: the block all records in memory are merged into.
SortQueues ==
  LET last == Passes(queue, FALSE)[1]
  IN  IF last = <<>> THEN <<>> ELSE last[1]

\* cob_write_block
WriteBlock == [file EXCEPT ![dest] = Append(@, SortQueues)]

FilesUsed == Len(file[1]) > 0
SwitchToFileLate == allocated > Capacity   \* mutant: noticed one allocation too late
SwitchToFile == allocated = Capacity

-----------------------------------------------------------------------------
(* RELEASE and RETURN. *)

\* cob_file_sort_submit of a record with key k, before retrieval.
Submit(k) ==
  LET q == IF SwitchToFile THEN NoBlocks ELSE queue
      z == IF Len(q[1]) <= Len(q[2]) THEN 1 ELSE 2
      item == [key |-> k, unique |-> unique]
  IN
  /\ unique < MaxRecords
  /\ file' = IF SwitchToFile THEN WriteBlock ELSE file
  /\ dest' = IF SwitchToFile THEN 3 - dest ELSE dest
  /\ queue' = [q EXCEPT ![z] = << <<item>> >> \o @]
  /\ allocated' = IF SwitchToFile THEN allocated ELSE allocated + 1
  /\ unique' = unique + 1
  /\ UNCHANGED <<heads, retrieving>>

\* cob_file_sort_process: the blocks that are left to be merged by retrieval.
Processed ==
  LET last == Passes(WriteBlock, TRUE)
  IN  IF ~FilesUsed THEN <<SortQueues, <<>>>>
      ELSE <<last[1][1], IF last[2] = <<>> THEN <<>> ELSE last[2][1]>>

\* cob_file_sort_retrieve: the blocks, and which of them holds the next record.
Blocks == IF retrieving THEN heads ELSE Processed
Move == CASE Blocks[1] = <<>> -> 2
          [] Blocks[2] = <<>> -> 1
          [] OTHER -> IF Before(Head(Blocks[1]), Head(Blocks[2])) THEN 1 ELSE 2
AtEnd == Blocks = NoBlocks

Retrieve ==
  /\ retrieving' = TRUE
  /\ queue' = NoBlocks /\ file' = NoBlocks
  /\ \/ AtEnd /\ heads' = Blocks /\ record' = record
     \/ /\ ~AtEnd
        /\ record' = Head(Blocks[Move]) /\ heads' = [Blocks EXCEPT ![Move] = Tail(@)]
  /\ UNCHANGED <<dest, allocated, unique>>

CobFileRelease ==
  /\ part \in {"input", "output", "closed"}
  /\ \/ /\ part # "closed" /\ ~retrieving
        /\ \E k \in Keys : Submit(k)
        /\ status' = "00" /\ sortReturn' = sortReturn
     \/ /\ part # "closed" /\ retrieving
        /\ status' = "30" /\ sortReturn' = 16 /\ UNCHANGED cobsort
     \/ part = "closed" /\ status' = "30" /\ UNCHANGED <<cobsort, sortReturn>>
  /\ UNCHANGED <<part, record, giving>>

CobFileReturn ==
  /\ part \in {"input", "output", "closed"}
  /\ IF part = "closed" THEN status' = "30" /\ UNCHANGED <<cobsort, record>>
     ELSE Retrieve /\ status' = IF AtEnd THEN "10" ELSE "00"
  /\ UNCHANGED <<part, sortReturn, giving>>

-----------------------------------------------------------------------------
(* The SORT statement. *)

Init ==
  /\ part = "closed" /\ queue = NoBlocks /\ file = NoBlocks /\ dest = 1 /\ allocated = 0
  /\ heads = NoBlocks /\ retrieving = FALSE /\ unique = 0
  /\ record = <<>> /\ status = "00" /\ sortReturn = 0
  /\ opt = [i \in 1..Files |-> -1] /\ given = [i \in 1..Files |-> <<>>]
  /\ failed = [i \in 1..Files |-> {}] /\ toGive = {}

\* cob_file_sort_init, before an input procedure or USING.
CobFileSortInit ==
  /\ part = "closed" /\ part' \in {"input", "using"}
  /\ status' = "00" /\ sortReturn' = 0
  /\ UNCHANGED <<cobsort, record, giving>>

\* cob_file_sort_using, one record of the USING file.
CobFileSortUsing ==
  /\ part = "using"
  /\ \E k \in Keys : Submit(k)
  /\ UNCHANGED <<part, record, status, sortReturn, giving>>

\* The OPEN of a USING file fails.
UsingOpenFails == /\ part = "using" /\ sortReturn' = 16
                  /\ UNCHANGED <<part, cobsort, record, status, giving>>

\* The end of the input procedure, and the PERFORM of the output procedure.
OutputProcedure == /\ part \in {"input", "using"} /\ part' = "output"
                   /\ UNCHANGED <<cobsort, record, status, sortReturn, giving>>

RecordsOf(block) == {block[i] : i \in DOMAIN block}
RecordsIn(q) == UNION {RecordsOf(q[i]) : i \in DOMAIN q}
\* The records that have been released and not retrieved.
Kept == RecordsIn(queue[1]) \cup RecordsIn(queue[2]) \cup RecordsIn(file[1])
          \cup RecordsIn(file[2]) \cup RecordsIn(heads)

\* cob_file_sort_giving: OPEN OUTPUT of the files, some of which may fail.
GivingOpen ==
  /\ part \in {"input", "using"} /\ part' = "giving"
  /\ \E opened \in SUBSET (1..Files) : opt' = [i \in 1..Files |-> IF i \in opened THEN 0 ELSE -1]
  /\ toGive' = Kept
  /\ UNCHANGED <<cobsort, record, status, sortReturn, given, failed>>

\* The files that the inner loop reaches with one record, given how each WRITE
\* would end.  The test for a GIVING file left looks at opt[i] instead of
\* opt[j], so the first permanent error ends the loop.
Reached(outcome) ==
  {i \in 1..Files : opt[i] >= 0 /\ \A j \in 1..(i - 1) : opt[j] >= 0 => outcome[j] # "permanent"}
GaveUp(outcome) == {i \in Reached(outcome) : outcome[i] = "permanent"}

\* One record is retrieved and written to the GIVING files.
GivingWrite ==
  /\ part = "giving" /\ ~AtEnd
  /\ Retrieve
  /\ \E outcome \in [1..Files -> {"ok", "permanent", "other"}] :
       /\ unique > MaxFaulty => \A i \in 1..Files : outcome[i] = "ok"
       /\ \A i \in 1..Files : outcome[i] = "other" => \A j \in 1..Files : failed[j] = {}
       /\ given' = [i \in 1..Files |->
                      IF i \in Reached(outcome) /\ outcome[i] = "ok" THEN Append(given[i], record')
                      ELSE given[i]]
       /\ failed' = [i \in 1..Files |->
                       IF i \in Reached(outcome) /\ outcome[i] = "other" THEN failed[i] \cup {record'}
                       ELSE failed[i]]
       /\ opt' = [i \in 1..Files |-> IF i \in GaveUp(outcome) THEN -2 ELSE opt[i]]
       /\ part' = IF GaveUp(outcome) = {} THEN part ELSE "given"
  /\ UNCHANGED <<status, sortReturn, toGive>>

GivingEnd ==
  /\ part = "giving" /\ AtEnd
  /\ Retrieve /\ part' = "given" /\ status' = "10"
  /\ UNCHANGED <<sortReturn, giving>>

SortReturnForUnopened == \E i \in 1..Files : opt[i] = -1   \* mutant: -2 is forgotten
\* A GIVING file could not be opened or was given up.
GivingFailed == \E i \in 1..Files : opt[i] < 0

\* CLOSE of the GIVING files and SORT-RETURN.
GivingClose ==
  /\ part = "given" /\ part' = "done"
  /\ sortReturn' = IF GivingFailed THEN 16 ELSE sortReturn
  /\ UNCHANGED <<cobsort, record, status, giving>>

\* cob_file_sort_close: cobsort is freed.
CobFileSortClose ==
  /\ part \in {"output", "done"} /\ part' = "closed" /\ status' = "00"
  /\ queue' = NoBlocks /\ file' = NoBlocks /\ dest' = 1 /\ allocated' = 0
  /\ heads' = NoBlocks /\ retrieving' = FALSE /\ unique' = 0
  /\ opt' = [i \in 1..Files |-> -1] /\ given' = [i \in 1..Files |-> <<>>]
  /\ failed' = [i \in 1..Files |-> {}] /\ toGive' = {}
  /\ UNCHANGED <<record, sortReturn>>

Next ==
  \/ CobFileRelease \/ CobFileReturn
  \/ CobFileSortInit \/ CobFileSortUsing \/ UsingOpenFails \/ OutputProcedure
  \/ GivingOpen \/ GivingWrite \/ GivingEnd \/ GivingClose \/ CobFileSortClose

Spec == Init /\ [][Next]_vars

-----------------------------------------------------------------------------
Records == [key : Keys, unique : 0..MaxRecords]

\* Types; sort memory never holds more than Capacity records.
TypeOK ==
  /\ part \in {"closed", "input", "using", "output", "giving", "given", "done"}
  /\ \A q \in {1, 2} : RecordsIn(queue[q]) \cup RecordsIn(file[q]) \cup RecordsOf(heads[q]) \subseteq Records
  /\ Len(queue[1]) + Len(queue[2]) <= allocated /\ allocated \in 0..Capacity
  /\ dest \in {1, 2} /\ retrieving \in BOOLEAN /\ unique \in 0..MaxRecords
  /\ record \in Records \cup {<<>>} /\ status \in {"00", "10", "30"} /\ sortReturn \in {0, 16}
  /\ opt \in [1..Files -> {-2, -1, 0}]

\* When SORT with GIVING ends and SORT-RETURN is 0, each GIVING file holds every
\* record but those whose own WRITE failed, in the order of the keys.
SortReturnTells ==
  part = "done" /\ sortReturn = 0 =>
    \A i \in 1..Files :
      /\ RecordsOf(given[i]) \cup failed[i] = toGive
      /\ \A a, b \in DOMAIN given[i] : a < b => Before(given[i][a], given[i][b])

-----------------------------------------------------------------------------
(* The promise: Kept are the records that are left.                        *)
Promise == INSTANCE Sorting WITH
  phase <- IF part = "closed" THEN "closed" ELSE IF retrieving THEN "output" ELSE "input",
  left <- Kept, count <- unique

SortsRecords == Promise!Spec
=============================================================================
