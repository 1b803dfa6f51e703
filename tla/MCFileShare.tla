---------------------------- MODULE MCFileShare ----------------------------
(* Small instances of FileShare for TLC. *)
EXTENDS FileShare

CONSTANTS p1, p2, c1, c2, n1, i1, i2

\* Every connector is assigned to the same file.
MCOnePath == [c \in Conns |-> n1]

\* No guard reads errno or status, so the runs do not tell states
\* apart by them.
MCView == <<dir, data, lock, conn, op, cache, exiting, kept, closedWithLock>>

\* Nor does one read data, which only DataBehindLock looks at.
MCViewNoData == <<dir, lock, conn, op, cache, exiting, kept, closedWithLock>>

\* Only p1 uses its second connector, and it does not end by itself.
MCOneUser == conn[p2][c2] = NewFile /\ op[p2].c # c2 /\ exiting = {}
=============================================================================
