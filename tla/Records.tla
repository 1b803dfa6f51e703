------------------------------- MODULE Records -------------------------------
(***************************************************************************)
(* What a relative file promises to the program: a partial function from   *)
(* record numbers to records, and a place from which READ NEXT goes on.    *)
(* RelativeFile implements it with slots and a file offset.                *)
(***************************************************************************)
EXTENDS Integers

CONSTANTS
  Nums,    \* record numbers, as offsets from the first (0, 1, ...)
  Data,    \* contents of a record
  MISSING, \* no record with that number
  UNKNOWN  \* no promise where READ NEXT goes on

VARIABLES
  recs,   \* number -> record or MISSING
  next,   \* READ NEXT looks for the first record from here on
  ended,  \* READ NEXT has met the end, or START has failed
  status, \* of the last statement
  record, \* what the last READ delivered
  call    \* the statement the program executed last, with its arguments

vars == <<recs, next, ended, status, record, call>>

Refusals == {"41", "42", "43", "46", "47", "48", "49"}
Existing == {k \in Nums : recs[k] # MISSING}
First(S) == CHOOSE k \in S : \A j \in S : k <= j
Last(S) == CHOOSE k \in S : \A j \in S : j <= k

Init == /\ recs = [k \in Nums |-> MISSING]
        /\ next = UNKNOWN /\ ended = FALSE /\ status = "00" /\ record = MISSING
        /\ call = <<"CLOSE">>

Refused == status' \in Refusals /\ UNCHANGED <<recs, next, ended, record>>
\* START refused for its access mode; it still counts as a use of an absent file.
StartRefused == /\ Existing = {} /\ call'[1] = "START"
                /\ status' = "47" /\ ended' = TRUE /\ UNCHANGED <<recs, next, record>>

\* OPEN OUTPUT empties the file; the other modes leave its records alone.
Open ==
  /\ status' \in {"00", "05"} /\ ended' = FALSE /\ record' = record
  /\ \/ call' = <<"OPEN", "OUTPUT">> /\ recs' = [k \in Nums |-> MISSING] /\ next' = 0
     \/ call' \in {<<"OPEN", "INPUT">>, <<"OPEN", "I_O">>} /\ recs' = recs /\ next' = 0
     \/ call' = <<"OPEN", "EXTEND">> /\ recs' = recs /\ next' = UNKNOWN
OpenFails == call'[1] = "OPEN" /\ status' = "35" /\ ended' = FALSE /\ UNCHANGED <<recs, next, record>>
Close == call' = <<"CLOSE">> /\ status' = "00" /\ next' = UNKNOWN /\ UNCHANGED <<recs, ended, record>>

Found(k) == /\ status' = "00" /\ record' = recs[k] /\ next' = k + 1 /\ ended' = FALSE
            /\ recs' = recs

ReadNext ==
  LET ahead == {k \in Existing : k >= next} IN
  /\ next # UNKNOWN /\ ~ended /\ call' = <<"READ NEXT">>
  /\ \/ ahead # {} /\ Found(First(ahead))
     \/ /\ ahead # {}   \* the number does not fit the RELATIVE KEY
        /\ status' = "14" /\ next' = First(ahead) /\ record' = recs[First(ahead)]
        /\ UNCHANGED <<recs, ended>>
     \/ /\ ahead = {}
        /\ status' = "10" /\ ended' = TRUE /\ next' = UNKNOWN /\ UNCHANGED <<recs, record>>

\* READ PREVIOUS, and READ NEXT with no place to go on from, promise no more than
\* to leave the records alone.
ReadAnywhere ==
  /\ call' = <<"READ PREVIOUS">> \/ (call' = <<"READ NEXT">> /\ next = UNKNOWN)
  /\ status' \in {"00", "10", "14", "30"} /\ recs' = recs
  /\ \/ next' = UNKNOWN
     \/ call' = <<"READ NEXT">> /\ \E k \in Existing : Found(k)

Read(k) ==
  /\ call' = <<"READ", k>>
  /\ \/ k \in Existing /\ Found(k)
     \/ /\ k \notin Existing /\ status' = "23" /\ UNCHANGED <<recs, ended, record>>
        /\ next' = k \/ (Existing = {} /\ next' = next)

\* The first READ of an optional file that is not there reports the end of it.
ReadNoFile == /\ Existing = {} /\ call'[1] \in {"READ", "READ NEXT", "READ PREVIOUS"}
              /\ status' = "10" /\ ended' = TRUE /\ UNCHANGED <<recs, next, record>>

\* The records that satisfy the condition of a START, k being the relative key.
Satisfying(cond, k) ==
  CASE cond = "EQ" -> Existing \cap {k}
    [] cond = "GT" -> {j \in Existing : j > k}
    [] cond = "GE" -> {j \in Existing : j >= k}
    [] cond = "LT" -> {j \in Existing : j < k}
    [] cond = "LE" -> {j \in Existing : j <= k}
    [] cond \in {"FI", "LA"} -> Existing

Start(cond, k) ==
  LET S == Satisfying(cond, k) IN
  /\ call' = <<"START", cond, k>>
  /\ \/ /\ S # {}
        /\ status' = "00" /\ ended' = FALSE
        /\ next' = IF cond \in {"LT", "LE", "LA"} THEN Last(S) ELSE First(S)
     \/ /\ S = {}
        /\ status' = "23" /\ ended' = TRUE /\ next' = UNKNOWN
  /\ UNCHANGED <<recs, record>>

\* READ, WRITE, REWRITE or DELETE with a relative key of zero.
NoSuchNumber == /\ \E statement \in {"READ", "WRITE", "REWRITE", "DELETE"} : call' = <<statement, -1>>
                /\ status' \in {"23", "24"} /\ UNCHANGED <<recs, next, ended, record>>

Write(k, d) ==
  /\ call' = <<"WRITE", k>>
  /\ \/ /\ k \notin Existing
        /\ status' = "00" /\ recs' = [recs EXCEPT ![k] = d] /\ next' = k + 1
     \/ k \in Existing /\ status' = "22" /\ next' = UNKNOWN /\ recs' = recs
  /\ UNCHANGED <<ended, record>>

\* The code reports 00 for a record that was deleted, and leaves it deleted.
Rewrite(k, d) ==
  /\ call' = <<"REWRITE", k>>
  /\ \/ k \in Existing /\ status' = "00" /\ recs' = [recs EXCEPT ![k] = d] /\ next' = k + 1
     \/ k \notin Existing /\ status' = "00" /\ recs' = recs /\ next' = k + 1
     \/ k \notin Existing /\ status' = "23" /\ recs' = recs /\ next' = k
  /\ UNCHANGED <<ended, record>>

Delete(k) ==
  /\ call' = <<"DELETE", k>>
  /\ \/ status' = "00" /\ recs' = [recs EXCEPT ![k] = MISSING] /\ next' = k + 1
     \/ k \notin Existing /\ status' = "23" /\ recs' = recs /\ next' = k
  /\ UNCHANGED <<ended, record>>

Next ==
  \/ Refused \/ StartRefused \/ Open \/ OpenFails \/ Close \/ ReadNoFile \/ NoSuchNumber
  \/ ReadNext \/ ReadAnywhere
  \/ \E k \in Nums : Read(k) \/ Delete(k)
  \/ \E k \in Nums, d \in Data : Write(k, d) \/ Rewrite(k, d)
  \/ \E k \in Nums \cup {-1}, c \in {"EQ", "GT", "GE", "LT", "LE", "FI", "LA"} : Start(c, k)

Spec == Init /\ [][Next]_vars
=============================================================================
