------------------------------- MODULE RunUnit -------------------------------
(***************************************************************************)
(* How a run unit ends (libcob/common.c): STOP RUN, runtime errors,        *)
(* cob_tidy and signals; the exit procedures (CBL_EXIT_PROC) and error     *)
(* procedures (CBL_ERROR_PROC) that run on the way; and the host program   *)
(* in C that calls COBOL by cob_call_with_exception_check and is to regain *)
(* control whatever happened.                                              *)
(*                                                                         *)
(* The state is the control stack of the process and the static variables  *)
(* of common.c.  A procedure runs COBOL code of its own: it may install    *)
(* and remove procedures, fail, or stop the run once more.                 *)
(***************************************************************************)
EXTENDS Integers, Sequences, SequencesExt, FiniteSets, Functions

CONSTANTS
  ExitProcs,  \* programs that are installed as exit procedures
  ErrorProcs, \* programs that are installed as error procedures
  Priorities, \* priorities of exit procedures, with the default 64
  NIL,        \* no list node
  FREED,      \* a list node that has been freed
  MaxDepth,   \* bound: length of the control stack
  MaxDeeds    \* bound: what the COBOL code of a run unit does

ASSUME ProcsAssumption == ExitProcs \cap ErrorProcs = {} /\ {NIL, FREED} \cap ExitProcs = {} /\ NIL # FREED
ASSUME BoundsAssumption == MaxDepth \in Nat /\ MaxDeeds \in Nat

VARIABLES
  stack,        \* the control stack of the process, innermost frame last
  initialized,  \* cob_initialized
  exits,        \* exit_hdlrs: records of a procedure and its priority
  errors,       \* hdlrs
  dangling,     \* hdlrs points to a node that has been freed
  active,       \* active_error_handler
  jump,         \* return_jmp_buffer_set, and the frame that return_jmp_buf names
  unload,       \* module_unload
  handled,      \* sig_is_handled
  mode,         \* the process; "freed" and "lost" are undefined behaviour
  terminations, \* how often this run unit has been torn down
  deeds         \* what its COBOL code has done, for the bound

handlers == <<exits, errors, dangling, active>>
jumps == <<jump, unload, initialized>>
vars == <<stack, initialized, exits, errors, dangling, active, jump, unload, handled, mode, terminations, deeds>>

-----------------------------------------------------------------------------
(* The control stack. *)

Host == [kind |-> "host"]
Checked == [kind |-> "checked"]             \* cob_call_with_exception_check
Program == [kind |-> "program"]             \* the program that the host called
ExitProc(p) == [kind |-> "exit proc", proc |-> p]
ErrorProc(p) == [kind |-> "error proc", proc |-> p]

\* call_exit_handlers_and_terminate: at is h.  was, ran and moved are for the properties:
\* the list at the start, the procedures called, those unlinked meanwhile.
ExitLoop(h, list, ends) == [kind |-> "exits", at |-> h, ends |-> ends, was |-> list, ran |-> <<>>, moved |-> {}]

\* The loop of cob_runtime_error: left is the list from h on, fatal: cob_hard_failure follows.
ErrorLoop(list, fatal) == [kind |-> "errors", left |-> list, more |-> TRUE, fatal |-> fatal, ran |-> <<>>]

Top == Last(stack)
Below == Front(stack)
Running(kind) == mode = "running" /\ Top.kind = kind
InCobol == mode = "running" /\ Top.kind \in {"program", "exit proc", "error proc"}
Deed == InCobol /\ deeds < MaxDeeds /\ deeds' = deeds + 1

Undefined(why) == mode' = why /\ UNCHANGED <<stack, handlers, jumps, handled, terminations>>

Procs(list) == [i \in DOMAIN list |-> list[i].proc]
IsExit(p) == \E i \in DOMAIN exits : exits[i].proc = p
PlaceOf(p) == CHOOSE i \in DOMAIN exits : exits[i].proc = p
First == IF exits = <<>> THEN NIL ELSE exits[1].proc
NextOf(p) == IF PlaceOf(p) = Len(exits) THEN NIL ELSE exits[PlaceOf(p) + 1].proc
\* The list from which the node of p, if there is one, has been unlinked.
Without(p) == IF IsExit(p) THEN RemoveAt(exits, PlaceOf(p)) ELSE exits

\* What freeing the node of p does to the loops that have its address in h.
Unlinked(frame, p) ==
  IF frame.kind # "exits" THEN frame
  ELSE [frame EXCEPT !.at = IF @ = p THEN FREED ELSE @, !.moved = @ \cup {p}]
UnlinkedAll(p) == [i \in DOMAIN stack |-> Unlinked(stack[i], p)]

-----------------------------------------------------------------------------
(* The host. *)

CobInit ==
  /\ Running("host") /\ ~initialized
  /\ initialized' = TRUE /\ exits' = <<>> /\ errors' = <<>> /\ dangling' = FALSE
  /\ terminations' = 0 /\ deeds' = 0
  /\ UNCHANGED <<stack, active, jump, unload, handled, mode>>

CobCall ==
  /\ Running("host") /\ initialized
  /\ stack' = Append(stack, Program)
  /\ UNCHANGED <<handlers, jumps, handled, mode, terminations, deeds>>

\* mutant: unloading is not postponed
CobCallUnloading ==
  /\ Running("host") /\ initialized
  /\ stack' = stack \o <<Checked, Program>>
  /\ jump' = [set |-> TRUE, to |-> Len(stack) + 1]
  /\ UNCHANGED <<handlers, unload, initialized, handled, mode, terminations, deeds>>

CobCallWithExceptionCheck ==
  /\ Running("host") /\ initialized
  /\ stack' = stack \o <<Checked, Program>>
  /\ jump' = [set |-> TRUE, to |-> Len(stack) + 1]
  /\ unload' = "postpone"
  /\ UNCHANGED <<handlers, initialized, handled, mode, terminations, deeds>>

StartExits(below, ends) == stack' = Append(below, ExitLoop(First, Procs(exits), ends))

CobTidy ==
  /\ Running("host") /\ initialized
  /\ StartExits(stack, "tidy")
  /\ UNCHANGED <<handlers, jumps, handled, mode, terminations, deeds>>

HostEnds ==
  /\ Running("host")
  /\ mode' = "exited"
  /\ UNCHANGED <<stack, handlers, jumps, handled, terminations, deeds>>

-----------------------------------------------------------------------------
(* What COBOL code does. *)

\* mutant: appended at the end of the list
InstallExitLast(p, priority) ==
  /\ Deed
  /\ [proc |-> p, priority |-> priority] \notin ToSet(exits)
  /\ exits' = Append(Without(p), [proc |-> p, priority |-> priority])
  /\ stack' = IF IsExit(p) THEN UnlinkedAll(p) ELSE stack
  /\ UNCHANGED <<errors, dangling, active, jumps, handled, mode, terminations>>

\* CBL_EXIT_PROC, flags 0 and 3: refused if it has this priority, else moved to the front.
InstallExit(p, priority) ==
  /\ Deed
  /\ [proc |-> p, priority |-> priority] \notin ToSet(exits)
  /\ exits' = <<[proc |-> p, priority |-> priority]>> \o Without(p)
  /\ stack' = IF IsExit(p) THEN UnlinkedAll(p) ELSE stack
  /\ UNCHANGED <<errors, dangling, active, jumps, handled, mode, terminations>>

\* CBL_EXIT_PROC, flag 1.
RemoveExit(p) ==
  /\ Deed
  /\ IsExit(p)
  /\ exits' = Without(p)
  /\ stack' = UnlinkedAll(p)
  /\ UNCHANGED <<errors, dangling, active, jumps, handled, mode, terminations>>

\* CBL_ERROR_PROC: it searches the list first.
SetErrors(list) ==
  /\ errors' = list
  /\ UNCHANGED <<stack, exits, dangling, active, jumps, handled, mode, terminations>>

InstallError(p) ==
  /\ Deed
  /\ IF dangling THEN Undefined("freed")
     ELSE p \notin ToSet(errors) /\ SetErrors(<<p>> \o errors)

RemoveError(p) ==
  /\ Deed
  /\ IF dangling THEN Undefined("freed")
     ELSE p \in ToSet(errors) /\ SetErrors(RemoveAt(errors, CHOOSE i \in DOMAIN errors : errors[i] = p))

\* mutant: error procedures are started in error procedures too
RuntimeErrorNested(fatal) ==
  /\ Deed /\ Len(stack) < MaxDepth
  /\ IF errors # <<>>
     THEN /\ stack' = Append(stack, ErrorLoop(errors, fatal))
          /\ active' = TRUE /\ dangling' = TRUE
     ELSE /\ IF fatal THEN StartExits(stack, "failure") ELSE UNCHANGED stack
          /\ UNCHANGED <<active, dangling>>
  /\ UNCHANGED <<exits, errors, jumps, handled, mode, terminations>>

\* cob_runtime_error; fatal: cob_hard_failure is called next.  The loop frees a node
\* before it calls the procedure, and hdlrs is set to NULL after the loop.
RuntimeError(fatal) ==
  /\ Deed /\ Len(stack) < MaxDepth
  /\ IF errors # <<>> /\ ~active
     THEN /\ stack' = Append(stack, ErrorLoop(errors, fatal))
          /\ active' = TRUE /\ dangling' = TRUE
     ELSE /\ IF fatal THEN StartExits(stack, "failure") ELSE UNCHANGED stack
          /\ UNCHANGED <<active, dangling>>
  /\ UNCHANGED <<exits, errors, jumps, handled, mode, terminations>>

StopRun ==
  /\ Deed /\ Len(stack) < MaxDepth
  /\ StartExits(stack, "stop")
  /\ UNCHANGED <<handlers, jumps, handled, mode, terminations>>

-----------------------------------------------------------------------------
(* The way back: the program and its procedures return. *)

\* The normal return of cob_call_with_exception_check leaves return_jmp_buffer_set.
ProgramReturns ==
  /\ Running("program")
  /\ IF Last(Below) = Checked
     THEN stack' = Front(Below) /\ unload' = "immediate"
     ELSE stack' = Below /\ UNCHANGED unload
  /\ UNCHANGED <<handlers, initialized, jump, handled, mode, terminations, deeds>>

\* h->proc () in the loop over the exit procedures.
CallExitProc ==
  /\ Running("exits") /\ Top.at \notin {NIL, FREED}
  /\ stack' = Below \o <<[Top EXCEPT !.ran = Append(@, Top.at)], ExitProc(Top.at)>>
  /\ UNCHANGED <<handlers, jumps, handled, mode, terminations, deeds>>

\* h = h->next.
ExitProcReturns ==
  /\ Running("exit proc")
  /\ LET loop == Last(Below) IN
     IF loop.at = FREED THEN Undefined("freed")
     ELSE /\ stack' = Append(Front(Below), [loop EXCEPT !.at = NextOf(@)])
          /\ UNCHANGED <<handlers, jumps, handled, mode, terminations>>
  /\ UNCHANGED deeds

CallErrorProc ==
  /\ Running("errors") /\ Top.more /\ Top.left # <<>>
  /\ LET p == Head(Top.left) IN
     stack' = Below \o <<[Top EXCEPT !.left = Tail(@), !.ran = Append(@, p)], ErrorProc(p)>>
  /\ UNCHANGED <<handlers, jumps, handled, mode, terminations, deeds>>

\* A RETURN-CODE of 0 skips the other error procedures; their nodes are freed all the same.
ErrorProcReturns(more) ==
  /\ Running("error proc")
  /\ stack' = Append(Front(Below), [Last(Below) EXCEPT !.more = more])
  /\ UNCHANGED <<handlers, jumps, handled, mode, terminations, deeds>>

ErrorsDone ==
  /\ Running("errors") /\ (Top.left = <<>> \/ ~Top.more)
  /\ errors' = <<>> /\ dangling' = FALSE /\ active' = FALSE
  /\ IF Top.fatal THEN StartExits(Below, "failure") ELSE stack' = Below
  /\ UNCHANGED <<exits, jumps, handled, mode, terminations, deeds>>

-----------------------------------------------------------------------------
(* The end of the run unit. *)

\* cob_terminate_routines: with COB_IMMEDIATE it ends by cob_exit_common.
UnloadAfter == IF initialized /\ unload = "postpone" THEN "requested" ELSE unload
StaysAfter == initialized /\ unload # "immediate"
Torn == terminations' = IF initialized THEN terminations + 1 ELSE terminations

Terminate ==
  /\ Running("exits") /\ Top.at = NIL
  /\ unload' = UnloadAfter /\ initialized' = StaysAfter /\ Torn
  /\ stack' = Append(Below, [kind |-> "terminated", ends |-> Top.ends])
  /\ UNCHANGED <<handlers, jump, handled, mode, deeds>>

\* longjmp into cob_call_with_exception_check, whose frame must still be there; it
\* returns at once, after the unloading that was requested.
Lands == jump.to <= Len(stack) /\ stack[jump.to] = Checked
\* mutant: cob_exit_common is not made up for after the longjmp
LongJumpOnly(u, init) ==
  IF Lands
  THEN /\ stack' = SubSeq(stack, 1, jump.to - 1)
       /\ jump' = [set |-> FALSE, to |-> 0]
       /\ unload' = "immediate"
       /\ initialized' = init
       /\ UNCHANGED mode
  ELSE mode' = "lost" /\ UNCHANGED <<stack, jumps>>

LongJump(u, init) ==
  IF Lands
  THEN /\ stack' = SubSeq(stack, 1, jump.to - 1)
       /\ jump' = [set |-> FALSE, to |-> 0]
       /\ unload' = "immediate"
       /\ initialized' = (init /\ u # "requested")
       /\ UNCHANGED mode
  ELSE mode' = "lost" /\ UNCHANGED <<stack, jumps>>

\* mutant: a hard failure without a longjmp does not exit
LeaveStuck ==
  /\ Running("terminated")
  /\ IF Top.ends = "tidy" THEN stack' = Below /\ UNCHANGED <<mode, jumps>>
     ELSE IF jump.set THEN LongJump(unload, initialized)
     ELSE Top.ends = "stop" /\ mode' = "exited" /\ UNCHANGED <<stack, jumps>>
  /\ UNCHANGED <<handlers, handled, terminations, deeds>>

\* The rest of cob_stop_run and cob_hard_failure, and the return of cob_tidy.
Leave ==
  /\ Running("terminated")
  /\ IF Top.ends = "tidy" THEN stack' = Below /\ UNCHANGED <<mode, jumps>>
     ELSE IF jump.set THEN LongJump(unload, initialized)
     ELSE mode' = "exited" /\ UNCHANGED <<stack, jumps>>
  /\ UNCHANGED <<handlers, handled, terminations, deeds>>

\* cob_sig_handler; a second signal kills the process.
CobSigHandler ==
  /\ mode = "running"
  /\ handled' = TRUE
  /\ IF handled THEN mode' = "killed" /\ UNCHANGED <<stack, jumps, terminations>>
     ELSE /\ Torn
          /\ IF jump.set THEN LongJump(UnloadAfter, StaysAfter)
             ELSE /\ mode' = "killed" /\ unload' = UnloadAfter /\ initialized' = StaysAfter
                  /\ UNCHANGED <<stack, jump>>
  /\ UNCHANGED <<handlers, deeds>>

-----------------------------------------------------------------------------
Init ==
  /\ stack = <<Host>> /\ initialized = FALSE
  /\ exits = <<>> /\ errors = <<>> /\ dangling = FALSE /\ active = FALSE
  /\ jump = [set |-> FALSE, to |-> 0] /\ unload = "immediate" /\ handled = FALSE
  /\ mode = "running" /\ terminations = 0 /\ deeds = 0

HostNext == CobInit \/ CobCall \/ CobCallWithExceptionCheck \/ CobTidy \/ HostEnds

CobolNext ==
  \/ \E p \in ExitProcs : RemoveExit(p) \/ \E q \in Priorities : InstallExit(p, q)
  \/ \E p \in ErrorProcs : InstallError(p) \/ RemoveError(p)
  \/ \E fatal \in BOOLEAN : RuntimeError(fatal)
  \/ StopRun

Returns ==
  \/ ProgramReturns \/ CallExitProc \/ ExitProcReturns
  \/ CallErrorProc \/ (\E more \in BOOLEAN : ErrorProcReturns(more)) \/ ErrorsDone
  \/ Terminate \/ Leave

Next == HostNext \/ CobolNext \/ Returns \/ CobSigHandler

Spec == Init /\ [][Next]_vars

\* The runtime goes on, and a procedure that has begun returns in the end.
FairSpec == Spec /\ WF_vars(Returns)

-----------------------------------------------------------------------------
Frames == {stack[i] : i \in DOMAIN stack}
Loops == {f \in Frames : f.kind = "exits"}
ErrorLoops == {i \in DOMAIN stack : stack[i].kind = "errors"}

\* Frame f can stand on frame b: a program on its caller, a procedure on the loop that
\* calls it, a loop on the code that is in control when it begins.
Carries(b, f) ==
  /\ f.kind \in {"checked", "program", "exits", "errors", "exit proc", "error proc", "terminated"}
  /\ f.kind = "checked" => b = Host
  /\ f.kind = "program" => b \in {Host, Checked}
  /\ f.kind = "exit proc" => b.kind = "exits" /\ b.at \in {f.proc, FREED}
  /\ f.kind = "error proc" => b.kind = "errors" /\ active
  /\ f.kind = "errors" => b.kind \in {"program", "exit proc", "error proc"}
  /\ f.kind \in {"exits", "terminated"} => b.kind # "exits"

WellFormed == stack[1] = Host /\ \A i \in 2..Len(stack) : Carries(stack[i - 1], stack[i])

\* The state is one that the declarations in common.c allow, and the control stack one
\* that its calls can build.
TypeOK ==
  /\ WellFormed
  /\ IsInjective(Procs(exits)) /\ ToSet(exits) \subseteq [proc : ExitProcs, priority : Priorities]
  /\ IsInjective(errors) /\ ToSet(errors) \subseteq ErrorProcs
  /\ {initialized, dangling, active, handled, jump.set} \subseteq BOOLEAN
  /\ unload \in {"immediate", "postpone", "requested"}
  /\ mode \in {"running", "exited", "killed", "freed", "lost"}

\* p comes before q in a list.
Precedes(list, p, q) == \E i, j \in DOMAIN list : i < j /\ list[i] = p /\ list[j] = q

\* One pass over the exit procedures calls each at most once, the last installed first,
\* also when procedures install, move and remove each other on the way; and it leaves
\* out none that stayed installed ("exit handlers that will be called before teardown").
ExitProcsOnce ==
  \A f \in Loops :
    /\ IsInjective(f.ran) /\ ToSet(f.ran) \subseteq ToSet(f.was)
    /\ \A i, j \in DOMAIN f.ran : i < j => Precedes(f.was, f.ran[i], f.ran[j])
    /\ f.at = NIL => ToSet(f.was) \ f.moved \subseteq ToSet(f.ran)

\* Error procedures never run inside of each other: an error in one of them does not
\* start over with the list, whose nodes are freed one by one.
ErrorLoopsDoNotNest == Cardinality(ErrorLoops) <= 1 /\ (ErrorLoops # {} => active)

\* COBOL code never runs on a run unit that has been torn down, not even after a longjmp
\* out of the middle of one and in a host that goes on calling programs.
NoCobolAfterTeardown == InCobol => initialized /\ terminations = 0

\* While cob_call_with_exception_check is on the stack the modules it called stay loaded
\* ("Set module unloading to be postponed (until longjmp is performed)").
NoUnloadUnderCheck == [][initialized /\ ~initialized' => Checked \notin {stack'[i] : i \in DOMAIN stack'}]_vars

\* What ends the run unit ends: after the exit procedures have run the process is gone or
\* the host is in control, whatever the procedures do a finite number of times.
EndsComeToAnEnd == Loops # {} /\ mode = "running" ~> (mode # "running" \/ stack = <<Host>>)
=============================================================================
