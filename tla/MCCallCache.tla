----------------------------- MODULE MCCallCache -----------------------------
(***************************************************************************)
(* prog is the executable, one is alone in its library, two and three are  *)
(* in one library, again is RECURSIVE, first is INITIAL and in a library   *)
(* that is preloaded under a name no program has.                          *)
(***************************************************************************)
EXTENDS CallCache, TLC

CONSTANTS prog, one, two, three, again, first, batch

MCHome == (prog :> EXE) @@ (one :> one) @@ (two :> two) @@ (three :> two)
          @@ (again :> again) @@ (first :> batch) @@ (batch :> NOWHERE)
MCKind == [n \in Names |-> CASE n = again -> "RECURSIVE" [] n = first -> "INITIAL" [] OTHER -> "NORMAL"]
MCLiterals == [n \in Names |-> CASE n = prog -> {one} [] n = two -> {three} [] OTHER -> {}]
MCHomeOf == [n \in Names |-> MCHome[n]]
==============================================================================
