---------------------------- MODULE MCIndexedFile ----------------------------
(* Small instances of IndexedFile for TLC. *)
EXTENDS IndexedFile

CONSTANTS p1, p2

MCNoSuppress == [i \in Alternates |-> {}]
MCAllModes == [p \in Procs |-> OpenModes]
MCAutomatic == [p \in Procs |-> "AUTOMATIC"]
MCDynamic == [p \in Procs |-> "DYNAMIC"]
MCSequential == [p \in Procs |-> "SEQUENTIAL"]

\* p1 reads in the order of the keys and updates what it has read, p2 goes by keys.
MCMixed == [p \in Procs |-> IF p = p1 THEN "SEQUENTIAL" ELSE "RANDOM"]
MCMixedLock == [p \in Procs |-> IF p = p1 THEN "AUTOMATIC" ELSE "MANUAL"]

\* Nothing reads status or call, and high only in sequential access.
MCView == <<file, mode, flock, lockVars, op, flags, at, torn, known,
            [p \in Procs |-> IF Access[p] = "SEQUENTIAL" THEN high[p] ELSE 0]>>

\* In random access nothing reads the flags, the place and the last key either.
MCViewMixed ==
  <<file, mode, flock, lockVars, op, torn,
    [p \in Procs |-> IF Access[p] = "RANDOM" THEN NONE ELSE <<flags[p], at[p], known[p], high[p]>>]>>
=============================================================================
