------------------------------ MODULE MCSortFile ------------------------------
(* Small instances of SortFile for TLC. *)
EXTENDS SortFile

\* The major key is ascending, the minor key, in which the records differ, descending.
MCKeys == {<<1, 1>>, <<1, 2>>}
MCDirections == <<"ASC", "DESC">>

\* No guard and no property reads status or record but in the step that sets them.
MCView == <<part, cobsort, sortReturn, giving>>
=============================================================================
