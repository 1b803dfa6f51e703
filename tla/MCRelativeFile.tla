---------------------------- MODULE MCRelativeFile ----------------------------
(* Small instances of RelativeFile for TLC. *)
EXTENDS RelativeFile

CONSTANTS d1, d2

\* No guard and no property reads status or record but in the step that sets them.
MCView == <<slot, n, exists, access, mode, pos, flags, key, cursor, got>>
=============================================================================
