-------------------------- MODULE MCSequentialFile --------------------------
(* Small files of both organizations: every way a CR can stand, lines and    *)
(* records that are too long, empty ones, and a second file to go on with.   *)
EXTENDS SequentialFile

MCContents == "LINE" :>
    { <<>>, <<"LF">>, <<"x", "CR", "LF", "y", "LF">>, <<"CR", "x", "y", "LF", "x", "y">>,
      <<"x", "y", "x", "y", "LF", "LF">>, <<"x", "y", "CR", "CR", "LF", "CR", "LF">> }
  @@ "VARIABLE" :>
    { <<>>, <<"1", "x", "2", "y", "y">>, <<"2", "x", "y", "4", "x", "y", "x", "y", "1", "x">>,
      <<"3", "x", "y", "x", "0", "2", "y", "x">>, <<"4", "x", "x", "x", "x">>, <<"1", "y", "x">>,
      <<"1", "x", "9", "x", "y", "x">> }
MCSecond == "LINE" :> {<<"y", "CR", "LF">>} @@ "VARIABLE" :> {<<"1", "y">>}
MCRecords == {<<>>, <<"y", " ">>, <<" ", "y">>, <<"y", "CR">>, <<"x", "y", "x">>}
MCAdvances == [phrase : {"BEFORE", "AFTER"}, lines : {1, 2}]

\* What the next operation can depend on: the record area, its place and the
\* status of the READ count for a REWRITE behind that READ only.
MCView ==
  << org, split, files, cur, pos, mode, pc, readDone, eof, needsNl,
     IF pc = "idle" THEN <<>> ELSE <<record, status, recOff, from>>,
     IF org = "VARIABLE" THEN recSize ELSE 0,
     IF readDone THEN <<recOff, status>> ELSE <<>>,
     IF mode = "OUTPUT" THEN <<wrote, overprint>> ELSE <<>> >>
=============================================================================
