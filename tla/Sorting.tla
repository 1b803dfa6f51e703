------------------------------- MODULE Sorting -------------------------------
(***************************************************************************)
(* What SORT promises: RETURN delivers what was RELEASEd, each record once,*)
(* in the order of the keys, records with equal keys in the order in which *)
(* they were released.  SortFile implements it with queues, blocks and     *)
(* temporary files.                                                        *)
(***************************************************************************)
EXTENDS Integers

CONSTANTS
  Keys,      \* the values of the key fields: tuples of integers
  Directions \* "ASC" or "DESC" for each key field

VARIABLES
  phase,  \* "closed", "input" (RELEASE), "output" (RETURN)
  left,   \* the records released and not yet returned
  count,  \* how many were released
  status, \* of the sort file
  record  \* the record last returned

vars == <<phase, left, count, status, record>>

\* Record a comes out before record b.
Before(a, b) ==
  \/ \E i \in DOMAIN Directions :
       /\ \A j \in 1..(i - 1) : a.key[j] = b.key[j]
       /\ IF Directions[i] = "ASC" THEN a.key[i] < b.key[i] ELSE a.key[i] > b.key[i]
  \/ a.key = b.key /\ a.unique < b.unique

Init == phase = "closed" /\ left = {} /\ count = 0 /\ status = "00" /\ record = <<>>

Begin == /\ phase = "closed" /\ phase' = "input" /\ status' = "00"
         /\ UNCHANGED <<left, count, record>>

Release(k) ==
  /\ phase = "input"
  /\ left' = left \cup {[key |-> k, unique |-> count]} /\ count' = count + 1 /\ status' = "00"
  /\ UNCHANGED <<phase, record>>

\* RELEASE in the output procedure, RELEASE and RETURN outside of a SORT.
Refused == phase # "input" /\ status' = "30" /\ UNCHANGED <<phase, left, count, record>>

\* RETURN, or GIVING, which leaves the status as it is until the end.
Return ==
  /\ phase # "closed" /\ phase' = "output" /\ count' = count
  /\ \/ \E r \in left :
          /\ \A s \in left \ {r} : Before(r, s)
          /\ record' = r /\ left' = left \ {r} /\ status' \in {"00", status}
     \/ left = {} /\ status' = "10" /\ UNCHANGED <<left, record>>

End == /\ phase # "closed" /\ phase' = "closed" /\ left' = {} /\ count' = 0 /\ status' = "00"
       /\ record' = record

Next == Begin \/ Refused \/ Return \/ End \/ \E k \in Keys : Release(k)

Spec == Init /\ [][Next]_vars
=============================================================================
