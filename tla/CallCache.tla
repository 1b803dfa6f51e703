------------------------------ MODULE CallCache ------------------------------
(***************************************************************************)
(* CALL and CANCEL: the call table of libcob/call.c, the libraries it      *)
(* loads and unloads, and the code that cobc/codegen.c generates at the    *)
(* entry, the exit and the CANCEL of a program.                            *)
(*                                                                         *)
(* A name is that of a program or of a file on the library path; a library *)
(* is called by the name of its file.  One run unit, one thread.           *)
(***************************************************************************)
EXTENDS Integers, Sequences, FiniteSets

CONSTANTS
  Names,    \* names in CALL and CANCEL
  Main,     \* the main program
  Libs,     \* the names that are files on the library path
  Home,     \* name -> the library with its program, EXE, or NOWHERE
  EXE,      \* the executable
  NOWHERE,  \* no such program
  Preload,  \* libraries of COB_PRE_LOAD
  Kind,     \* name -> the attribute of its program
  Literals, \* program -> the names in its CALLs of a literal
  Settings, \* values of COB_PHYSICAL_CANCEL
  MaxDepth, \* bound: programs on the module stack
  MaxOpens  \* bound: loads of one library

ASSUME NamesAssumption == IsFiniteSet(Names) /\ Main \in Names /\ Libs \subseteq Names /\ EXE \notin Libs /\ Preload \subseteq Libs
ASSUME HomeAssumption == Home \in [Names -> Libs \cup {EXE, NOWHERE}] /\ Home[Main] = EXE
ASSUME KindAssumption == Kind \in [Names -> {"NORMAL", "RECURSIVE", "INITIAL"}] /\ Kind[Main] = "NORMAL"
ASSUME LiteralsAssumption == Literals \in [Names -> SUBSET Names]
ASSUME SettingsAssumption == Settings \subseteq {"yes", "no", "never"}
ASSUME BoundsAssumption == MaxDepth \in Nat \ {0} /\ MaxOpens \in Nat \ {0}

VARIABLES
  physical, \* COB_PHYSICAL_CANCEL
  stack,    \* the module stack, the running program last
  table,    \* call_table: name -> call_hash
  opens,    \* library -> how often it is loaded
  dynload,  \* library -> its handles in base_dynload_ptr
  init,     \* program -> initialized
  module,   \* program -> its static pointer to a cob_module is set
  active,   \* program -> module_active
  refs,     \* library -> cob_reference_count
  ptr,      \* program -> name -> its static pointer call_<name>
  mode      \* "running", "stopped", or "undefined": unloaded code or freed memory was used

libs == <<opens, dynload>>
progs == <<init, module, active, refs>>
vars == <<physical, stack, table, libs, progs, ptr, mode>>

Top == stack[Len(stack)]
OnStack(n) == \E k \in DOMAIN stack : stack[k] = n
Of(lib) == {n \in Names : Home[n] = lib}    \* the programs of a library
Shared(lib) == Cardinality(Of(lib)) > 1
Mapped(lib) == lib = EXE \/ (lib \in Libs /\ opens[lib] > 0)

\* module: "absent" without entry; "none" is NULL; "freed" is a cob_module that has
\* been freed.  frame: the activation whose module it is, if the program is RECURSIVE.
\* live: func still is in the library that was loaded when it was resolved.
Entries == [module: {"absent", "none", "own", "freed"}, frame: 0..MaxDepth,
            handle: BOOLEAN, nocanc: BOOLEAN, live: BOOLEAN]
NoEntry == [module |-> "absent", frame |-> 0, handle |-> FALSE, nocanc |-> FALSE, live |-> FALSE]
Inserted(handle, nocanc) ==
  [module |-> "none", frame |-> 0, handle |-> handle, nocanc |-> nocanc, live |-> TRUE]
InTable(n) == table[n].module # "absent"

SetCancelFound(t, n, d) ==   \* mutant: nothing is inserted
  IF t[n].module = "absent" THEN t
  ELSE [t EXCEPT ![n].module = "own", ![n].frame = IF Kind[n] = "RECURSIVE" THEN d ELSE 0]

\* cob_set_cancel, called when activation d of n initialises the program.
SetCancel(t, n, d) ==
  LET e == IF t[n].module = "absent" THEN Inserted(FALSE, TRUE) ELSE t[n] IN
  [t EXCEPT ![n] = [e EXCEPT !.module = "own", !.frame = IF Kind[n] = "RECURSIVE" THEN d ELSE 0]]

\* The main program has been started and has called cob_init.
Init ==
  /\ physical \in Settings
  /\ stack = <<Main>>
  /\ table = SetCancel([n \in Names |-> NoEntry], Main, 1)
  /\ opens = [l \in Libs |-> IF l \in Preload THEN 1 ELSE 0]
  /\ dynload = [l \in Libs |-> 0]
  /\ init = [n \in Names |-> n = Main]
  /\ module = init
  /\ active = [n \in Names |-> IF n = Main THEN 1 ELSE 0]
  /\ refs = [l \in Libs |-> 0]
  /\ ptr = [c \in Names |-> [n \in Names |-> "null"]]
  /\ mode = "running"

Stop == mode' = "stopped" /\ UNCHANGED <<stack, progs>>
Undefined == mode' = "undefined" /\ UNCHANGED <<stack, progs>>

-----------------------------------------------------------------------------
(* CALL. *)

\* A CALL that does not reach its program: ON EXCEPTION or the end of the run.
CallFails(onException) ==
  IF onException THEN UNCHANGED <<stack, progs, mode>> ELSE Stop

\* The entry code of a program; t is the call table after it was resolved.
Enter(n, t) ==
  LET lib == Home[n] IN
  /\ stack' = Append(stack, n)
  /\ module' = [module EXCEPT ![n] = Kind[n] # "RECURSIVE"]
  /\ table' = IF init[n] THEN t ELSE SetCancel(t, n, Len(stack) + 1)
  /\ init' = [init EXCEPT ![n] = TRUE]
  /\ active' = IF Kind[n] = "RECURSIVE" THEN active ELSE [active EXCEPT ![n] = @ + 1]
  /\ refs' = IF lib \in Libs /\ Shared(lib) THEN [refs EXCEPT ![lib] = @ + 1] ELSE refs
  /\ mode' = mode

\* The jump to func, which is valid unless its library has been unloaded; then
\* cob_module_global_enter.
Jump(n, t, valid, onException) ==
  \/ ~valid /\ Undefined /\ table' = t
  \/ valid /\ module[n] /\ OnStack(n) /\ CallFails(onException) /\ table' = t
  \/ valid /\ ~(module[n] /\ OnStack(n)) /\ Enter(n, t)

\* cob_resolve_internal finds the entry point in what is loaded.
Loaded(n) == Home[n] = EXE \/ (Home[n] \in Libs /\ (Home[n] \in Preload \/ dynload[Home[n]] > 0))

LoadFile(n) == /\ opens[n] < MaxOpens
               /\ opens' = [opens EXCEPT ![n] = @ + 1]
               /\ dynload' = [dynload EXCEPT ![n] = @ + 1]

\* cob_resolve_cobol, cob_call_field, and the CALL itself.
ResolveAndJump(n, onException) ==
  \/ InTable(n) /\ Jump(n, table, table[n].live, onException) /\ UNCHANGED libs
  \/ /\ ~InTable(n) /\ Loaded(n)
     /\ Jump(n, [table EXCEPT ![n] = Inserted(TRUE, TRUE)], TRUE, onException)
     /\ UNCHANGED libs
  \/ /\ ~InTable(n) /\ ~Loaded(n) /\ n \in Libs /\ LoadFile(n)
     /\ IF Home[n] = n
        THEN Jump(n, [table EXCEPT ![n] = Inserted(TRUE, FALSE)], TRUE, onException)
        ELSE CallFails(onException) /\ table' = table
  \/ /\ ~InTable(n) /\ ~Loaded(n) /\ n \notin Libs
     /\ CallFails(onException) /\ UNCHANGED <<table, libs>>

KeepsPointerAlways(n) == ptr[Top][n] # "null"   \* mutant: no test of cob_physical_cancel

\* The static pointer of a CALL literal is used while it is set and nothing is unloaded.
KeepsPointer(n) == ptr[Top][n] # "null" /\ physical # "yes"
Resolvable(n) == InTable(n) \/ Loaded(n) \/ (n \in Libs /\ Home[n] = n)

Call(n, literal, onException) ==
  /\ mode = "running" /\ Len(stack) < MaxDepth /\ (literal => n \in Literals[Top])
  /\ \/ /\ literal /\ KeepsPointer(n)
        /\ Jump(n, table, ptr[Top][n] = "set", onException) /\ UNCHANGED <<libs, ptr>>
     \/ /\ ~(literal /\ KeepsPointer(n))
        /\ ResolveAndJump(n, onException)
        /\ ptr' = IF ~literal THEN ptr
                  ELSE [ptr EXCEPT ![Top][n] = IF Resolvable(n) THEN "set" ELSE "null"]
  /\ physical' = physical

-----------------------------------------------------------------------------
(* The exit of a program: GOBACK, EXIT PROGRAM; in the main program STOP RUN. *)

NoPointers == [n \in Names |-> "null"]

\* The cob_module of a RECURSIVE program is freed with its activation, that of an
\* INITIAL program by the CANCEL it does of itself.
ModuleFreedAtExit(n) ==
  /\ table[n].module = "own"
  /\ \/ Kind[n] = "INITIAL"
     \/ Kind[n] = "RECURSIVE" /\ table[n].frame = Len(stack)

Return ==
  LET n == Top
      lib == Home[n]
      initial == Kind[n] = "INITIAL"
  IN
  /\ mode = "running" /\ Len(stack) > 1
  /\ stack' = SubSeq(stack, 1, Len(stack) - 1)
  /\ active' = IF active[n] > 0 THEN [active EXCEPT ![n] = @ - 1] ELSE active
  /\ refs' = IF lib \in Libs /\ Shared(lib) /\ refs[lib] > 0 THEN [refs EXCEPT ![lib] = @ - 1] ELSE refs
  /\ table' = IF ModuleFreedAtExit(n) THEN [table EXCEPT ![n].module = "freed"] ELSE table
  /\ init' = IF initial THEN [init EXCEPT ![n] = FALSE] ELSE init
  /\ module' = IF initial THEN [module EXCEPT ![n] = FALSE] ELSE module
  /\ ptr' = IF initial THEN [ptr EXCEPT ![n] = NoPointers] ELSE ptr
  /\ UNCHANGED <<physical, libs, mode>>

StopRun == mode = "running" /\ Stop /\ UNCHANGED <<physical, table, libs, ptr>>

-----------------------------------------------------------------------------
(* CANCEL. *)

UnlinksActive(n) == physical # "no" /\ ~table[n].nocanc /\ table[n].handle \* mutant: no reference count

UnlinksPreloaded(n) ==   \* mutant: no test of no_phys_cancel
  ~(Home[n] \in Libs /\ refs[Home[n]] > 0) /\ physical # "no" /\ table[n].handle

\* do_cancel_module: whether the entry is removed, whether the library is closed.
Unlinks(n) == /\ ~(Home[n] \in Libs /\ refs[Home[n]] > 0)
              /\ physical # "no" /\ ~table[n].nocanc /\ table[n].handle
Closes(n) == Unlinks(n) /\ physical = "yes"

\* An entry that stays.
EntryAfterCancel(n) == [table[n] EXCEPT !.module = "none", !.frame = 0]

\* What P_cancel and the unloading of the library leave; gone are the programs in it.
Cancelled(n) ==
  LET lib == Home[n]
      gone == IF Closes(n) /\ opens[lib] = 1 THEN Of(lib) ELSE {}
      reset == gone \cup (IF init[n] THEN {n} ELSE {})
  IN
  /\ init' = [p \in Names |-> init[p] /\ p \notin reset]
  /\ module' = [p \in Names |-> module[p] /\ p \notin reset]
  /\ ptr' = [c \in Names |->
              IF c \in reset THEN NoPointers
              ELSE [p \in Names |-> IF p \in gone /\ ptr[c][p] = "set" THEN "dangling" ELSE ptr[c][p]]]
  /\ table' = [p \in Names |->
                CASE p = n /\ Unlinks(n) -> NoEntry
                  [] p = n /\ ~Unlinks(n) -> EntryAfterCancel(p)
                  [] OTHER -> [table[p] EXCEPT !.live = @ /\ p \notin gone]]
  /\ opens' = IF Closes(n) THEN [opens EXCEPT ![lib] = @ - 1] ELSE opens
  /\ dynload' = IF Closes(n) THEN [dynload EXCEPT ![lib] = 0] ELSE dynload
  /\ mode' = IF \E p \in gone : OnStack(p) THEN "undefined" ELSE mode
  /\ active' = [p \in Names |-> IF p \in reset THEN 0 ELSE active[p]]
  /\ UNCHANGED <<stack, refs>>

CancelNeverFatal(n) == FALSE   \* mutant: no test of module_active

\* P_cancel finds the program active.
CancelFatal(n) == init[n] /\ module[n] /\ active[n] > 0

Cancel(n) ==
  /\ mode = "running"
  /\ \/ /\ table[n].module \in {"absent", "none"}
        /\ UNCHANGED <<stack, table, libs, progs, ptr, mode>>
     \/ /\ (table[n].module = "freed") \/ (table[n].module = "own" /\ ~table[n].live)
        /\ Undefined /\ UNCHANGED <<table, libs, ptr>>
     \/ /\ table[n].module \in {"own", "freed"} /\ table[n].live
        /\ IF CancelFatal(n) THEN Stop /\ UNCHANGED <<table, libs, ptr>> ELSE Cancelled(n)
  /\ physical' = physical

Next ==
  \/ \E n \in Names, literal, onException \in BOOLEAN : Call(n, literal, onException)
  \/ Return
  \/ StopRun
  \/ \E n \in Names : Cancel(n)

Spec == Init /\ [][Next]_vars

-----------------------------------------------------------------------------
\* Every variable keeps its type; no library is closed more often than it was opened.
TypeOK ==
  /\ physical \in Settings
  /\ stack \in Seq(Names) /\ Len(stack) \in 1..MaxDepth
  /\ table \in [Names -> Entries]
  /\ opens \in [Libs -> 0..MaxOpens] /\ dynload \in [Libs -> 0..MaxOpens]
  /\ init \in [Names -> BOOLEAN] /\ module \in [Names -> BOOLEAN]
  /\ active \in [Names -> 0..MaxDepth] /\ refs \in [Libs -> 0..MaxDepth]
  /\ ptr \in [Names -> [Names -> {"null", "set", "dangling"}]]
  /\ mode \in {"running", "stopped", "undefined"}

\* A library is loaded as often as it is in the two lists: none is leaked, and dlsym is
\* not asked for a symbol of a library that is closed.
HandlesBalanced ==
  \A l \in Libs : opens[l] = dynload[l] + IF l \in Preload THEN 1 ELSE 0

Activations(n) == {k \in DOMAIN stack : stack[k] = n}

\* module_active and cob_reference_count count the activations that are on the stack:
\* CANCEL decides by them.
CountsOK ==
  /\ \A n \in Names : Kind[n] # "RECURSIVE" => active[n] = Cardinality(Activations(n))
  /\ \A l \in Libs : Shared(l) => refs[l] = Cardinality(UNION {Activations(n) : n \in Of(l)})

\* CANCEL reaches every program that has been called since it was cancelled: no program
\* keeps its WORKING-STORAGE because its entry has no module.
CancelReaches ==
  \A n \in Names : init[n] => table[n].module \in {"own", "freed"}

\* Nothing of a program alone in its library dangles: neither its entry nor the pointer
\* that a CALL in the running program would use.
AloneIsLive ==
  \A n \in Names : Home[n] \in Libs /\ ~Shared(Home[n]) =>
     /\ InTable(n) => table[n].live /\ Mapped(Home[n])
     /\ KeepsPointer(n) => ptr[Top][n] = "set" /\ Mapped(Home[n])

\* The module that CANCEL reads is that of the program, unless it is RECURSIVE or INITIAL.
ModuleIsOwn ==
  \A n \in Names : Kind[n] = "NORMAL" /\ table[n].live /\ table[n].module # "absent" =>
     table[n].module = IF module[n] THEN "own" ELSE "none"

\* No program is unloaded while an activation of it is on the stack, unless it is
\* RECURSIVE and alone in its library.
RunningStaysLoaded ==
  [][\A n \in Names : OnStack(n) /\ (Kind[n] # "RECURSIVE" \/ Shared(Home[n])) /\ Mapped(Home[n])
        => Mapped(Home[n])']_vars
==============================================================================
