# A TLA+ model of GnuCOBOL

GnuCOBOL translates COBOL to C (`cobc/`) and runs it on a runtime library
(`libcob/`).  This directory models the parts of that system whose correctness is
a matter of state: files shared by processes, file positions and statuses, alternate
indexes and record locks, logical pages, sort queues and work files, the cache of
called programs, the ends of a run unit, and reports.  TLC checks small instances; TLAPS proves the
invariants that matter most for every value of the constants.

## Inventory

| Part | Source | State it keeps | Operations | What makes it correct |
|---|---|---|---|---|
| OPEN/CLOSE and sharing | `libcob/fileio.c` 1424-2255, 6085-6545, 7046-7114, 8892-8961 | `cob_file` (open_mode, fd, flag_nonexistent, lock_mode), `file_cache`, kernel locks, errno | cob_open, cob_close, cob_unlock_file, cob_commit, cob_rollback, cob_delete_file, closeall | descriptors, modes and locks agree on every path; writers exclude each other |
| Record I/O rules | `libcob/fileio.c` 6545-7045 | flag_read_done, flag_first_read, EOF/BOF flags, statuses | cob_start, cob_read, cob_read_next, cob_write, cob_rewrite, cob_delete | the status and position rules of the standard |
| Relative files | `libcob/fileio.c` 3041-3480 | slots in the file, file position, cur_rec | start, read, read_next, write, rewrite, delete | the file is a map from record number to record |
| Sequential and line sequential files | `libcob/fileio.c` 1690-3040 | position, record_off, flag_needs_nl, record->size | read, write, rewrite, ADVANCING | what is written is read back; REWRITE replaces the record that was read |
| LINAGE | `libcob/fileio.c` 1470-1690 | linage_ctr, lin_lines ... lin_bot, flag_needs_top, the global eop_status | open, write, close | records stay in the body of their page; the end of page is told to the WRITE that reaches it |
| Indexed files (BDB) | `libcob/fileio.c` 3600-6084 | primary and secondary trees, cursors, record locks | open, start, read, write, rewrite, delete, unlock | secondaries agree with the primary; record locks exclude |
| SORT/MERGE files | `libcob/fileio.c` 7880-8860 | four memory queues, four work files, SORT-RETURN | release, return, using, giving | the output is the stable sorted permutation of the input |
| CALL/CANCEL | `libcob/call.c`, `cobc/codegen.c` 7023-7050, 11997-13010 | call table, preloaded and cached modules, cancel flags, active counters | resolve, call, cancel, exit | no active program is unloaded; a cancelled one is initialised again |
| Run-unit control | `libcob/common.c` | module stack, exit handlers, signal state, exception state, externals, allocated storage | module_enter/leave, stop_run, signal handler, exit procedures, allocate/free, external | handlers run once, the stack is balanced, memory is released once |
| String statements | `libcob/strings.c` | statement-local buffers, mark array, pointers | INSPECT, STRING, UNSTRING | tallies and replacements as the statement rules say |
| Report writer | `libcob/reportio.c` | page and line counters, control values, sum counters | INITIATE, GENERATE, TERMINATE | page limits and control breaks |
| Profiling | `libcob/profiling.c` | stack of procedures, per-procedure times | enter, exit, goto, end | the stack is balanced |
| Virtual heaps | `libcob/fileio.c` 10930-11266 | heap segments | open, read, write, close vfile | a byte written is the byte read |
| COPY/REPLACE | `cobc/replace.c` | two token queues | ppecho, copy and replace streams | replacement is applied once, in order |
| Numeric, date and intrinsic functions | `libcob/numeric.c`, `move.c`, `intrinsic.c` | none or scratch fields | arithmetic, MOVE, FUNCTION | values |
| Compiler front end and code generator | `cobc/parser.y`, `typeck.c`, `tree.c`, `field.c`, `codegen.c`, `scanner.l`, `pplex.l`, `ppparse.y`, `config.c`, `reserved.c` | syntax trees | translation | not a reactive system |
| Screen, terminal, XML/JSON | `libcob/screenio.c`, `termio.c`, `mlio.c` | terminal, documents | DISPLAY/ACCEPT, XML/JSON GENERATE | formatting and device I/O |

The parts interact by direct calls within one process (generated code calls
libcob; `cob_stop_run` and the signal handler call the file system's closeall)
and, between processes, through the files of the operating system and their
locks.

What is hard here, and where it bites, is listed line by line under `hazards` in
`PROJECT.json`.  The short version:

* **Sharing.** POSIX record locks belong to a process and an inode, and *any*
  close of the inode drops them; OPEN is `access`, `open`, `fcntl`, and other run
  units act in between; a process can be killed at each of these points.
* **Positions.** A relative file has one offset, moved by every statement with
  relative and absolute seeks; each error path has its own idea of where it
  leaves the offset.
* **Merging.** SORT takes turns between two sources and two destinations, in
  memory and in temporary files, and switches between them when memory is full.
* **Unloading.** CANCEL may close the library a program is in.  The call table, the
  pointers cached in generated code, and the modules of other programs point into
  it, and only counters in generated code say that it is in use.
* **Updates of several databases.** An indexed WRITE, REWRITE or DELETE changes the
  primary database and each alternate one in turn, under a cursor that keeps other
  writers out but not readers; it can fail, or be killed, between any two of them.
* **State that outlives its statement.** The end of page of a WRITE is a global that
  the next successful statement, of any file, reports; a line is taken apart with
  look-ahead over a second file; the frame a `longjmp` returns to may be gone.
* **Ends within ends.** An exit procedure may install, remove or move exit procedures,
  fail, or stop the run again; so may an error procedure.
* **Leaving a statement and coming back.** GENERATE returns to the program for each USE
  BEFORE REPORTING procedure and is called again with a number, from which it has to find
  the place in its loops over the controls and do nothing twice.
* **Many outcomes of one statement.** SORT GIVING writes one record to several
  files, each of which may fail.

## Modules

| Module | Kind | Models | Runs |
|---|---|---|---|
| `FileShare` | component | OPEN, CLOSE, WRITE, UNLOCK, COMMIT, ROLLBACK, DELETE FILE, what CANCEL does to files, STOP RUN and a signal, for several processes | `share_two`, `share_excl` |
| `FileShare_proofs` | proofs | the inductive invariant of `FileShare`; on top of it what exclusive files keep, that `file_cache` has every open file, CLOSE WITH LOCK | |
| `Records` | abstract | what a relative file promises: a map from record numbers to records and a place to read on | |
| `RelativeFile` | component | START, READ, READ NEXT/PREVIOUS, WRITE, REWRITE, DELETE, OPEN, CLOSE of ORGANIZATION RELATIVE; implements `Records` | `relative` |
| `RelativeFile_proofs` | proofs | the inductive invariant of `RelativeFile`, what the sequential REWRITE and DELETE change, that it implements `Records` | |
| `SequentialFile` | component | OPEN, CLOSE, READ, WRITE ADVANCING, REWRITE of LINE SEQUENTIAL files character by character, and of variable-length SEQUENTIAL files | `seqfile` |
| `SequentialFile_proofs` | proofs | the inductive invariant of `SequentialFile`; what READ delivers and REWRITE replaces | |
| `Linage` | component | OPEN, CLOSE, WRITE ADVANCING of LINAGE files, several files of one run unit | `linage` |
| `Linage_proofs` | proofs | the inductive invariant of `Linage` and its three properties | |
| `IndexedFile` | component | OPEN, CLOSE, START, READ, READ NEXT/PREVIOUS, UNLOCK, and the steps of WRITE, REWRITE, DELETE of ORGANIZATION INDEXED, for several run units | `idx_share`, `idx_cursor`, `idx_v_rewrite` |
| `IndexedFile_proofs` | proofs | the inductive invariants of `IndexedFile`: locks, records and indexes; the place of READ NEXT | |
| `Sorting` | abstract | what SORT promises: RETURN delivers what was released, once, in order | |
| `SortFile` | component | RELEASE, RETURN, USING, GIVING, the sort engine, SORT-RETURN; implements `Sorting` | `sort` |
| `SortFile_proofs` | proofs | what merging, a pass and all passes return; the inductive invariant of `SortFile`; that it implements `Sorting` | |
| `CallCache` | component | CALL, CANCEL, entry and exit of a program, loading and unloading of libraries | `call` |
| `CallCache_proofs` | proofs | the inductive invariant of `CallCache` and its seven properties | |
| `RunUnit` | component | the ends of a run unit: STOP RUN, runtime errors, `cob_tidy`, signals, exit and error procedures, a C host that regains control | `rununit` |
| `RunUnit_proofs` | proofs | the inductive invariants of `RunUnit`: the shape of its control stack, and the loops over the exit procedures | |
| `ReportWriter` | component | INITIATE, GENERATE, TERMINATE, SUPPRESS and the procedures of a report: control breaks, sum counters, pages | `report` |
| `MC...` | instances | the values, views and symmetries of the runs of the module so named | |

### FileShare

State and code.  A process `p` is a run unit; `conn[p][c]` is the `cob_file` of
connector `c` with the fields the protocol reads: `open_mode`, the descriptor
(`fd`, as the inode it refers to), `flag_nonexistent`, whether OPEN asked for
exclusive use (`share_mode`), and whether records sit in a `FILE` buffer.
`cache[p]` is `file_cache`.  `dir` and `data` are the directory and the contents
(only whose records are in a file), `lock` the kernel's table of record locks.
`op[p]` is the program counter inside `cob_file_open` and `cob_file_close`; each
system call that another process can observe is an action:

| Action | Code |
|---|---|
| `CobOpen` | `cob_open` to `access ()` in `cob_file_open`, with the early return 35 |
| `OpenFile`, `OpenMissing`, `OpenFails` | `open ()`/`fopen ()` and the switch over errno |
| `LockGranted`, `LockRefused` | `fcntl (F_SETLK)` and the rest of `cob_file_open` |
| `CobClose`, `CloseFd` | `cob_close` to the unlock in `cob_file_close`; the `close ()`/`fclose ()` |
| `CobCloseQuick`, `CobOpenRefused`, `CobDeleteFileRefused` | the early returns |
| `CobCancel`, `CobClose` with `remfil` | the CANCEL code of a program (codegen.c:12915) for one of its files: `cob_close` unless it is CLOSED, then `cob_file_free`, so that the program begins with a new `cob_file` when it is called again |
| `CobUnlockFile`, `CobCommit` | `cob_unlock_file`; the loop that `cob_commit` and `cob_rollback` share |
| `CobDeleteFile` | `cob_delete_file` with what it does about errno |
| `StopRun`, `CobClose` while `exiting`, `ExitRun` | `cob_exit_fileio_closeall` |
| `Killed` | a signal that leaves no chance to clean up |

The two history variables say what the program may count on: `kept[p]` are the
connectors that have neither given their lock up nor lost it through another
connector of their own process, `closedWithLock[p]` those that CLOSE WITH LOCK has
closed and no CANCEL has freed since.

The errors that POSIX gives a connector (its lock replaced or dropped by another
connector of the same process on the same file) are part of the model; they are
why `WriterExclusion` is stated for `kept` connectors.

### RelativeFile and Records

A file is `slot`, a function from slot numbers to a record or `EMPTY` (size 0),
and its length `n`.  `pos` is the file offset: at the size of a slot (`At(i)`) or
past it (`Inside(i)`); the code can leave it in both places.  `flags` are
`flag_first_read`, `flag_end_of_file`, `flag_begin_of_file`, `flag_read_done` and
`flag_nonexistent`.  There is one action per statement; its disjuncts are the
checks of `cob_start` ... `cob_delete` and then the handler of the relative file
with its own returns.  `cursor`, `got` and `call` are history variables: where
READ NEXT has to go on, which slot was delivered last, which statement ran.

`Records` knows nothing of slots and offsets.  The refinement maps `slot` to its
records, `cursor` to its place, and the end flags to its one flag.  `UNKNOWN` in
`Records` is where the code makes no promise (after a READ PREVIOUS, at end, after
an EXTEND).  Reading from inside a slot (`ReadMisaligned`) takes bytes of a record
for a size; the model allows every outcome of it.

### SortFile and Sorting

Records are keys with the `unique` number the code gives them.  A queue or a file
is a sequence of blocks, a block a sequence of records.  `Submit` is
`cob_file_sort_submit`, `SortQueues` is `cob_sort_queues`, `Processed` is
`cob_file_sort_process`, `Retrieve` is `cob_file_sort_retrieve`; a pass over the
queues and a pass over the files are the same operator `Pass`, which merges the
n-th blocks of two sources (`Merged`) into destinations that take turns, and they
differ in when they stop (`Again`).  `Merge` and `Passes` are recursive functions of
the number of records taken and of passes made.  `GivingWrite` is one turn of the outer loop of
`cob_file_sort_giving_internal` and chooses, for each file, how its WRITE ends.

`Sorting` keeps the set of records not yet returned and lets RETURN deliver only
the least of it in the order of the keys, equal keys in the order of release:
`SortsRecords == Promise!Spec` says each record comes out once, in that order, with
status 10 after the last and 30 out of place.

### SequentialFile

A file is a sequence of cells, each a character or the length that stands before a
variable-length record.  `files` is the file and the one that is concatenated to it,
`cur` which of them is open, `pos` the position of the stream.  `lineseq_read` is a
loop over `getc`: one action takes one character (`GetChar`), one a line end
(`GetLineEnd`), one the end of the file (`GetEof`), so that a loop which never ends is
a behaviour of the model.  `recOff` and `recSize` are `record_off` and `record->size`,
which REWRITE trusts.  `org` and `split` (COB_LS_SPLIT) are chosen at the start.
`from`, `wrote` and `overprint` are history.

| Action | Code |
|---|---|
| `CobOpen`, `CobOpenAgain`, `CobClose`, `CobCloseAgain` | `cob_open`, `cob_close` with the line feed that is still due (`flag_needs_nl`), `set_sequential_variable_length` |
| `CobReadLine`, `GetChar`, `GetLineEnd`, `GetEof` | `lineseq_read` |
| `CobReadVariable` | `sequential_read`, with `open_next` |
| `CobWrite` | `cob_write`, `lineseq_write` and `sequential_write` with `cob_file_write_opt` and `cob_seq_write_opt` |
| `CobRewrite` | `cob_rewrite`, `lineseq_rewrite`, `sequential_rewrite` |

What a READ, a REWRITE and a sequence of WRITEs ought to do is stated by reference
definitions over the cells (`LineAt`, `VariableAt`, `RecordsOf`), which know nothing
of positions.

### Linage

`items[f]` are the data items of the LINAGE phrase, which the program may change at any
time (`MoveItems`); `lin[f]` the four fields that `file_linage_check` copies from them
when a page begins; `ctr[f]` LINAGE-COUNTER; `eop` the global `eop_status`.  `at[f]`
counts the lines the paper has moved since its page began: the counter is what the
program is told, `at` is what the printer did.  `CobOpen`, `CobClose` and `CobWrite` are
the handlers with everything they call; `CobWriteDenied` is the WRITE of a closed file.

### IndexedFile

`pri` is the primary database, `sec[i]` the database of alternate key `i` with entries
(key, primary key, number of the duplicate).  READ and START take effect at once.
WRITE, REWRITE and DELETE are sequences of steps of other processes' making as well:
`op[p].step` says how far the update of run unit `p` is, and every put, delete, lock
test and cursor close is an action:

| Action | Code |
|---|---|
| `Open`, `OpenFails`, `Close`, `UnlockFile` | `indexed_open`, `indexed_close`, `cob_unlock_file` with the locks of the environment |
| `CobStart`, `CobRead`, `CobReadNext` | `cob_start` ... with `indexed_start_internal`, `indexed_read`, `indexed_read_next`, and the record locks they take and give up |
| `CobWrite`, `CobRewrite`, `CobDelete`, `Refused` | the checks before the handler, and its early returns |
| `CheckAlternates`, `TestLock`, `Find` | `check_alt_keys`, `test_record_lock`, the search in `indexed_delete_internal` |
| `DeleteAlternate`, `DeletePrimary`, `CloseCursor` | the rest of `indexed_delete_internal` |
| `WriteRecord`, `WriteAlternate`, `LockNew` | `indexed_write_internal` and the lock behind it |

`torn` is history: an update of a run unit has left records and indexes out of step
(it failed or was overtaken halfway).  `race` says who had tested the lock of a record
before another run unit took it; `known` what the program can know of its place.

### CallCache

A name is that of a program, of a library file, or of both (`Home` says which
library has the program).  `table[n]` is the `call_hash` entry of `n`; its field
`module` tells an entry without a module from one whose module is the program's and
one whose module has been freed, and `live` says whether its `func` is still in
mapped code.  `opens[l]` counts what the system's loader counts, `dynload[l]` the
handles in `base_dynload_ptr`.  `init`, `module`, `active`, `refs` and `ptr` are the
static variables of the generated code: `initialized`, `module`, `module_active`,
`cob_reference_count` and the pointers `call_<name>`; they go with the library.
`stack` is the module stack.

| Action | Code |
|---|---|
| `Call` | the call a COBOL statement is compiled to (codegen.c:7023), `cob_resolve_cobol` or `cob_call_field`, `cob_resolve_internal` with `insert` and `cache_dynload`, then `cob_module_global_enter` and the entry code, or the exception |
| `Return` | the exit code with the implicit CANCEL of an INITIAL program |
| `Cancel` | `cob_cancel`, `do_cancel_module` and the `P_cancel` code |
| `StopRun` | `cob_stop_run` |

Jumping into closed libraries and reading freed modules has no defined outcome:
`mode` becomes `"undefined"` and nothing happens any more.  Such states are
reachable (see the observations); the invariants say what is true of the states
up to there and of the programs that cannot be the cause.

### RunUnit

`stack` is the control stack of the process: the host, `cob_call_with_exception_check`,
COBOL programs, the loop over the exit procedures and the loop over the error
procedures, each with the position it has reached.  `exits` and `errors` are the lists
`exit_hdlrs` and `hdlrs`; `jump` is `return_jmp_buf` with the frame it names.

| Action | Code |
|---|---|
| `CobInit`, `CobCall`, `CobCallWithExceptionCheck`, `CobTidy`, `HostEnds` | what a C host does |
| `InstallExit`, `RemoveExit`, `InstallError`, `RemoveError` | `cob_sys_exit_proc`, `cob_sys_error_proc` |
| `RuntimeError`, `CallErrorProc`, `ErrorProcReturns`, `ErrorsDone` | `cob_runtime_error`, and `cob_hard_failure` behind it |
| `StopRun`, `CallExitProc`, `ExitProcReturns`, `Terminate` | `cob_stop_run`, `call_exit_handlers_and_terminate`, `cob_terminate_routines`, `cob_exit_*` |
| `LongJump`, `Leave` | `cob_longjmp`/`longjmp`, `exit ()` |
| `CobSigHandler` | the signal handler |

A list node that is freed while a loop holds its address, and a jump to a frame that
has returned, have no defined outcome: `mode` becomes `"freed"` or `"lost"` and nothing
happens any more; the observations below name the statements that do that.

### ReportWriter

`d` is the description of the report (its groups with their LINE and NEXT GROUP clauses,
and which have a procedure), `p` the counters and flags of `cob_report`, `f` the control
fields of the program, `val`, `sf`, `change` and `suppress` the fields of
`cob_report_control`, `ctr` the sum counters.  Controls are numbered from the minor one.
`pc` is the place in `cob_report_generate` or `cob_report_terminate`: what these do for one
group is one action, and `pc.ctl` tells the first visit of a group (`"go"`) from the one
behind its procedure (`"back"`), which the code tells by the number it is called with.

| Action | Code |
|---|---|
| `CobReportInitiate` | `cob_report_initiate` |
| `CobReportGenerate` | the entry of `cob_report_generate` |
| `FirstGenerate`, `FirstHeading` | REPORT HEADING, the first PAGE HEADING, all CONTROL HEADINGs |
| `NextGenerate` | the page that is full, the control break, the old values for the footings |
| `ControlFooting`, `PageAfterFootings`, `ControlHeading` | the loops over the broken controls |
| `Detail` | the sums, the DETAIL, and the return to the start behind its procedure |
| `CobReportTerminate`, `LastControlFooting`, `FinalFooting`, `ReportFooting` | `cob_report_terminate` |
| `UseBeforeReporting` | the loop that the compiler generates around both, and `cob_report_suppress` |

A page is a chain of operators on the record `p`, named for the functions: `ReportLine` is
`report_line`, which calls `DoPageFooting` and `DoPageHeading`, which print their groups
through `ReportLine`.  `given`, `before`, `count`, `quiet`, `again` and some fields of `p`
(`out`, `open`, `pages`, `clash`) are history: the control fields the program gave to the
GENERATEs, the details since each break, what was suppressed, what was printed.

## Runs

| Run | Instance | What it shows |
|---|---|---|
| `share_two` | 2 processes on one path; one has a second connector, OPTIONAL and LINE SEQUENTIAL | `HandleOK`, `WriterExclusion` in every interleaving, kill and error path; COMMIT and the end of the run unit find every open file in `file_cache` (`OpenIsCached`), though two connectors have one name, an OPEN may be refused, and CANCEL takes files out |
| `share_excl` | 2 processes, one connector each, LOCK MODE EXCLUSIVE, 2 inodes, fairness | COMMIT, ROLLBACK and UNLOCK do not release an exclusive file (`ExclusiveKeepsLock`), nobody else's records get into a locked file (`DataBehindLock`), a call that has begun returns (`CallsReturn`) |
| `relative` | 4 slots, key up to 3, all access modes, 2 contents, READ PREVIOUS in dynamic access | `RecordsKept` (the refinement of `Records`), `UpdatesHitTheReadRecord` |
| `seqfile` | records of at most 3 characters, files of at most 10 cells (those that are written grow to 7) with CRs before, between and behind the characters of a line, two files concatenated, COB_LS_SPLIT on and off, fairness | `ReadIsNextRecord`, `RewriteReplaces`, `WhatIsWrittenIsRead`, `ReadsEnd` |
| `linage` | 2 files, 6 geometries (with and without margins and footing, a page of one line, impossible ones), ADVANCING PAGE, 1, 2, 3 | `CounterIsLine`, `RecordsInBody`, `EopWhenDue` |
| `idx_share` | 2 run units, 2 values of each key, one unique alternate key, sequential and random access, AUTOMATIC and MANUAL locks, each step of an update visible to the other | the indexes agree with the records at every step of an update (`EntriesLeadBack`, `RecordsIndexed`, `UniqueAlternates`), locks are known and respected (`LocksTracked`, `LockedRecordStays`) |
| `idx_cursor` | one run unit, an alternate key WITH DUPLICATES, dynamic access, LOCK ON MULTIPLE RECORDS | `RecordsIndexed` with duplicates, `NextIsNearest` |
| `idx_v_rewrite` | one run unit, sequential access, a unique alternate key | REWRITE deletes another record (finding) |
| `sort` | 8 records, memory for 4, 2 GIVING files | `TypeOK`, `SortReturnTells`, `SortsRecords` (the refinement of `Sorting`) |
| `call` | 7 names, 4 libraries, stack of 3, each library loaded at most twice | the invariants of the call table, `RunningStaysLoaded` |
| `rununit` | 2 exit procedures, 2 error procedures, 2 priorities, control stack of 7, 4 deeds of COBOL code, fairness | `ExitProcsOnce`, `ErrorLoopsDoNotNest`, `NoCobolAfterTeardown`, `NoUnloadUnderCheck`, `EndsComeToAnEnd` |
| `report` | 2 controls of 2 values, pages of 8 lines with 3 of body, 17 descriptions, at most 4 GENERATEs, fairness | `TotalsRight`, `FootingsAtBreaks`, `ValuesKept`, `PagesInOrder`, `StatementsReturn` |

Why the bounds are enough.

*Sharing:* a conflict is between two processes, and
what a process can do to its own lock takes two connectors on one inode; a second
inode is needed only for a file that is deleted and created again while it is
open (`share_excl`).  The second process of `share_two` uses one connector
(`MCOneUser`), so the run has both kinds of rival.  `data`, errno and status are
left out of the views of the runs whose properties and guards do not read them.

*Relative files:* the offset is moved by at most two slots at a time, so three
slots show each step and four show the steps after a gap; one slot number does
not fit the RELATIVE KEY (status 14).

*Sequential files:* a decision of `lineseq_read` looks at the character, at one behind
it and at whether the area is full; seven cells hold a line that is too long, the CR
and the LF behind it and the start of the next line.  WRITE goes on while the file has
fewer than `MaxCells` cells and may pass it once.

*Linage:* one file shows the arithmetic of a page; the second is there because
`eop_status` is shared.  `ADVANCING 3 LINES` goes past a whole small page.  `at` counts
from the beginning of a page, so nothing grows.

*Indexed files:* two records and an alternate key of two values are the least in which
an update of one collides with the other; two run units because every lock and every
half-done update has one other party.  `MaxDup` stops updates that would number a
duplicate higher than 2, `MaxHeld` bounds how often a run unit locks one record.

*SORT:* `cob_file_sort_process` takes four
items, the least memory; eight records fill memory and write up to four blocks
to the temporary files, which need two passes over them, with the odd and even
numbers of blocks in between.  Keys are pairs: the records agree in the ascending
major key and differ in, or agree in, the descending minor key, so both
directions and the order of equal keys matter.  WRITE fails only in sorts of at
most `MaxFaulty` records: what a failing WRITE does is independent of how many
blocks were merged.

*CALL:* a conflict needs a caller, a callee and what the callee cancels, so three
activations; the libraries are one of each sort (alone, shared by two programs,
RECURSIVE, preloaded under a name that is no program), and a library is loaded a
second time only by way of a preloaded one or after it was closed.

*Run unit:* a hazard of the lists takes one procedure that runs and one that it moves or
removes; the priorities are one that is inserted by value and the default.  Seven frames hold
the host, a checked call, a program, a loop with its procedure and a second loop inside it.
Five deeds and eight frames pass as well.

*Reports:* a break of one control is, or is not, one of the other: two controls of two
values.  Three lines of body are filled by two details, or by one with a footing and a
heading, so that each group comes first, last and beyond the end of some page; four
GENERATEs make a sum roll forward twice.  A description has one feature at a time: each
clause of LINE and NEXT GROUP, each kind of group with a procedure.

Deadlock is checked in the runs of `FileShare`, `RelativeFile` and `SortFile`.  In those of
`CallCache` and `RunUnit` a run unit that has ended, and one whose behaviour is undefined,
stops; in `Linage` a fault does; in `IndexedFile`, `SequentialFile` and `ReportWriter` a bound may leave no
statement that can be begun.

Fairness is assumed in `share_excl` (weak fairness of the steps inside OPEN and of the close
inside CLOSE, for each process: a process that is
not killed keeps executing the call it is in, and `fcntl` is called with `F_SETLK`, which
never waits), in `seqfile` (weak fairness of the steps of a READ: the loop
over `getc` goes on; and of the READs of a program that reads to the end), in `rununit`
(weak fairness of `Returns`: procedures return, loops and exits go on) and in `report` (weak
fairness of the steps of a statement, `GoesOn`: procedures return, statements go on).  Nothing is assumed
about the other statements a program executes.

## Findings and observations

One `violation` run shows code that disagrees with a comment, quoted in `PROJECT.json`:
`indexed_delete_internal` (fileio.c:4088) does not set the key in sequential access, and
REWRITE of a record with a unique alternate key deletes the record whose primary key is
that alternate value (`idx_v_rewrite`).

Modelled as the code has them, with no property that says otherwise.

Sharing:
* `cob_delete_file` (7114) maps a stale errno although `unlink` succeeded.
* OPEN INPUT WITH LOCK takes a shared lock (1730): two such opens coexist.
* OPEN OUTPUT truncates before it asks for the lock: a refused OPEN OUTPUT empties
  the file of the run unit that holds the lock; `DataBehindLock` excepts it.
* CLOSE WITH LOCK of an OPTIONAL file that is not there does not lock the connector.
* A file closed WITH LOCK "may not be opened in *this runtime unit* again" (the comment at
  2178), but CANCEL of the program frees the `cob_file`, and the program called again opens
  the file: `CloseWithLockIsFinal` is about a `cob_file` as long as it exists.

Relative files:
* `relative_write` (3355) returns 22 with the offset inside the slot, and a READ NEXT then
  takes bytes of a record for its size.
* `relative_read_next` (3302) goes two slots back after READ PREVIOUS; in sequential access
  `RecordsKept` would not hold with it, which is why `Previous` is `{"DYNAMIC"}`.
* REWRITE of a deleted record reports 00 and leaves it deleted (3406); `Records!Rewrite`
  allows it.

Sequential files:
* `lineseq_read` (2652) goes back over a CR that is the last character of the file and finds
  it again without end: READ does not return.  Such a file comes from WRITE BEFORE ADVANCING 0
  LINES of a record; the files of `ReadsEnd` do not end with one.
* With COB_LS_SPLIT a last line of exactly the record's size without a line feed is
  delivered with 06, and its last character again as a record.
* REWRITE of a blank line sequential record writes nothing and returns 00 (the comment at 3019);
  REWRITE after a split READ (06) leaves the last character of the line.
* REWRITE over a last line without line feed takes its slot for one shorter than it is (2944)
  and leaves the last character of the old record, where the comment at 3019 has spaces:
  "y" over "xy" reads "yy".  `RewriteReplaces` is about the whole record and names this
  character as its exception; the run has such a file.
* REWRITE of a line that ends in CR LF overwrites the CR with a space: the line is one
  character longer, and with COB_LS_SPLIT a full one is then followed by a blank piece (06).
* After a variable-length READ that was truncated (04), REWRITE overwrites the rest of the
  record (comment at 2471); `RewriteReplaces` is about READs with 00 or 09.
* OPEN of an empty variable-length file compares the size the connector had before with
  the limits and may return 39 (1804).

Linage:
* A WRITE that ends its page and fails with 57 leaves its end of page to the next
  statement that succeeds, of any file (1641); `EopWhenDue` excepts a statement with an
  end of page left over.
* AFTER that turns the page prints the record one line above the body (`run_file.at`
  expects it so); `RecordsInBody` excepts it.
* OPEN that ends with 57 leaves the file open without a stream; a WRITE BEFORE then faults.

Indexed files:
* READ NEXT never locks the record (5583), LOCK ON MULTIPLE RECORDS forgets its locks and
  CLOSE does not release them, REWRITE WITH LOCK under MULTIPLE releases the lock (6064), UNLOCK
  releases the lock on the file too (6146).
* WRITE WITH LOCK may return 51 although the record is written; status 02 is never
  returned, because an inner `ret` hides the outer one (3871).
* A file that was empty at OPEN stays at its end for READ NEXT though others have written
  since; READ NEXT skips a record that another run unit is rewriting.
* The locks of a run unit that is killed stay until the environment is recovered.

SORT:
* `cob_file_sort_giving_internal` (8613) tests `opt[i]` where `j` is the index: one failing
  GIVING file stops another.
* An error of a GIVING WRITE outside the permanent class leaves SORT-RETURN alone;
  `SortReturnTells` excepts those records.

CALL:
* `P_cancel` (codegen.c:12894) never finds a RECURSIVE program active, so CANCEL of a
  running one is carried out and its library may be closed under it.
* With COB_PHYSICAL_CANCEL, CANCEL of the program that loaded a library of several
  programs closes it while the entries of the other programs still hold functions
  in it (call.c:508); `AloneIsLive` is about programs alone in their library.
* The entry of a RECURSIVE or INITIAL program keeps a pointer to the module that the
  program frees at its exit, and a later CANCEL reads through it (call.c:470);
  `ModuleIsOwn` is about the other programs.

Run unit:
* `return_jmp_buffer_set` stays 1 after `cob_call_with_exception_check` has returned
  (common.c:10280; the comment at 10258 says it is reset); a later STOP RUN jumps to a frame
  that is gone.
* An exit procedure that removes or moves itself, and an error procedure that installs or
  removes one, make the loop read a freed node.
* STOP RUN in an error procedure under a checked call leaves `active_error_handler` set
  (9122): later errors find no handlers.
* An exit procedure that always stops the run is called without end, unless it is removed.

Reports:
* Behind the procedure of a DETAIL, GENERATE starts over (1846, 1583): its sums count the
  detail twice, and the first GENERATE prints its headings again.  `TotalsRight` and
  `PagesInOrder` leave these out (`again`).
* With a procedure for the REPORT HEADING and one for a DETAIL the first GENERATE never returns:
  both are told from the ones done before by the same static `last_use` (1636, 1847).  The run
  has no such description.
* SUPPRESS in the procedure of a CONTROL HEADING suppresses the next footing of that control
  instead (1905); `FootingsAtBreaks` allows it.
* NEXT GROUP PAGE of a footing is forgotten when the next footing has a procedure, because
  `foot_next_page` is cleared at each entry (1581).
* A NEXT GROUP that is pending when the page ends is executed inside the page footing, and a
  first GENERATE that fills its page prints the footing twice and does not count the page;
  `PagesInOrder` ends there (`clash`).
* TERMINATE does not undo the last decrement of LINE-COUNTER (its footings are one line early:
  `FirstBody`), shows the values that the control fields have then, and after no GENERATE
  leaves the report initiated.

## What is proved

`FileShare_proofs` proves, for every set of processes, connectors, paths and inodes
(assumptions: `PathOfAssumption`, `SubsetAssumption`, `NoneAssumption`):

| Theorem | Statement |
|---|---|
| `Inductive` | `Spec => []IInv` |
| `TypeCorrect` | `Spec => []TypeOK` |
| `HandlesConsistent` | `Spec => [](HandleOK /\ LockHasHandle)` |
| `Exclusion` | `Spec => [](LockCovers /\ WriterExclusion)` |

`IInv` is `TypeOK /\ OpOK /\ HandleOK /\ LockHasHandle /\ LockCovers /\ Compatible`.  None of
the last three is inductive alone.  `OpOK` ties the program counter to the
`cob_file` (between `open` and `fcntl` the connector is open without a descriptor,
inside CLOSE it is open with one, before `open` it is closed); without it CLOSE
could take the descriptor of a file that is just being opened.  `Compatible` says
that the lock table never holds two locks of different processes that conflict:
`WriterExclusion` is `LockCovers` seen through it.  `LockHasHandle` is needed when an
inode is used again: a free inode has no lock left over.  The proof has one lemma
per action; most actions change neither locks nor descriptors (`QuietLocks`) or
drop the locks of one process on one inode (`DropLocks`).

The second half of the module goes on from there:

| Theorem | Statement |
|---|---|
| `KeptInductive` | `Spec => [](IInv /\ KInv)` |
| `ExclusiveKeeps` | `Spec => []ExclusiveKeepsLock` |
| `DataSafe` | `Spec => DataBehindLock`, if every file is exclusive, unbuffered and used by one connector of each run unit |
| `OpenCachedAlways` | `Spec => []OpenIsCached` |
| `LockedStays` | `Spec => []CloseWithLockIsFinal` |

A process loses a lock behind the back of a connector only by another of its connectors on
the same inode.  `KInv` says that this cannot happen to an exclusive connector alone on its
path: an inode that is held was reached by its path (`HeldByPath`), an inode has one path as
long as it is held (`OnePath`, `PathsApart`), and what is `kept` is given up only by CLOSE
(`ExclusiveKept`, `ClosingNotExcl`).  `CInv` serves the last two theorems: a connector is in
`file_cache` from the beginning of its OPEN until its CLOSE or CANCEL has begun, and LOCKED from a
CLOSE WITH LOCK that closed it until CANCEL frees it.

`RelativeFile_proofs` proves, for files of any size, any
RELATIVE KEY, any contents and any access modes (assumptions: `BoundsAssumption`,
`DataAssumption`, `AccessAssumption`, `PreviousAssumption`, `UnknownAssumption`):

| Theorem | Statement |
|---|---|
| `Inductive` | `Spec => []IInv` |
| `TypeCorrect` | `Spec => []TypeOK` |
| `CursorKept` | `Spec => []CursorOK` |
| `UpdatesHit` | `Spec => UpdatesHitTheReadRecord`, if READ PREVIOUS is not used in sequential access |
| `Refinement` | `Spec => RecordsKept`, under the same condition |

`IInv` is `TypeOK /\ CursorOK /\ ReadOK /\ SequentialOK`.  `CursorOK` alone is not
inductive: the sequential REWRITE writes before the offset, so after a READ the
offset must be behind slot 0 (`ReadOK`), and in sequential access it must be right
behind the record that was delivered and never inside a slot, unless a START has
failed and the end flag keeps READ from being executed (`SequentialOK`).  With READ
PREVIOUS in sequential access `SequentialOK` is false, which is why the last two
theorems exclude it; `TypeOK` and `CursorOK` are proved with it.  The refinement needs three more facts (`FileInv`): slots from
`n` on are empty, a file that is only written to stands at its end, and a file that
is not there has no slots.  Its proof has one simulation lemma per statement; every
step is a step of `Records` or leaves its variables alone (a MOVE to the key).  That
the first and last elements of a set of slots exist, where the code scans for them,
is derived from the well-foundedness of inclusion among finite sets.

`CallCache_proofs` proves every property of the run `call` for any finite set of names,
any distribution of programs over libraries, any preloading, and any nesting
(assumptions: `NamesAssumption`, `HomeAssumption`, `KindAssumption`,
`SettingsAssumption`, `BoundsAssumption`):

| Theorem | Statement |
|---|---|
| `Inductive` | `Spec => []IInv` |
| `TypeCorrect` | `Spec => []TypeOK` |
| `Balance` | `Spec => []HandlesBalanced` |
| `Counts` | `Spec => []CountsOK` |
| `Reaches` | `Spec => []CancelReaches` |
| `Live` | `Spec => []AloneIsLive` |
| `Own` | `Spec => []ModuleIsOwn` |
| `StaysLoaded` | `Spec => RunningStaysLoaded` |

The key is `Closable`: an entry that may close its library has the name of the library,
the library is not preloaded, and it is in the list of loaded libraries once.  So a
CANCEL that closes finds the library open once, and `HandlesBalanced` goes on.  `Once`
(a program that is not RECURSIVE is on the stack once, and initialised) makes the
counters right, and with them the answer of `P_cancel`.  `LiveEntries` and
`LivePointers` hold where nothing is ever closed, and for the programs alone in their
library where libraries are closed; they are what a CALL through the program's own
pointer needs, after CANCEL has taken its entry away.  The parts of `IInv` take the
table, the libraries and the statics as arguments, because a CALL changes them in two
halves: `ResolveKeeps` says what holds after the name is resolved, `EnterKeepsTable`
and `EnterKeepsStack` carry it over the entry.

`Linage_proofs` proves, for any files, any geometries the data items may take (negative
and impossible ones too), and any ADVANCING (assumptions: `GeometriesAssumption`,
`AdvancesAssumption`):

| Theorem | Statement |
|---|---|
| `Inductive` | `Spec => []IInv` |
| `TypeCorrect` | `Spec => []TypeOK` |
| `CounterKept` | `Spec => []CounterIsLine` |
| `InBody` | `Spec => RecordsInBody` |
| `EopTold` | `Spec => EopWhenDue` |

`IInv` is `TypeOK /\ CounterIsLine /\ NoStreamNoPage`.  `TypeOK` bounds the counter by the
body of the page, which is what makes `CounterIsLine` inductive over the turn of a page:
the lines to the bottom of the page are `lines + bot - ctr + 1`, and the next page may have
other sizes.  `NoStreamNoPage` says that a file open without a stream has no page.  A WRITE
is a composition of operators on a page record (`TopOfFirst`, `CobLinageWriteOpt`,
`AlsoDown`, `Turn`); there is one lemma for what each keeps, and `PrintedInBody` for the
line the record is printed on.

`RunUnit_proofs` proves the four safety properties of the run `rununit` for any procedures,
priorities and depths of the control stack (assumption: `ProcsAssumption`, that the two marks
`NIL` and `FREED` are not procedures):

| Theorem | Statement |
|---|---|
| `Inductive` | `Spec => []IInv` |
| `OneErrorLoopAtATime` | `Spec => []ErrorLoopsDoNotNest` |
| `NeverOnTornDown` | `Spec => []NoCobolAfterTeardown` |
| `LoadedUnderCheck` | `Spec => NoUnloadUnderCheck` |
| `ListsInductive` | `Spec => [](IInv /\ LInv)` |
| `ExitProcsCalledOnce` | `Spec => []ExitProcsOnce` |
| `TypeCorrect` | `Spec => []TypeOK` |

`IInv` is `Shaped(stack) /\ LoopOK /\ UnloadOK /\ JumpOK /\ LifeOK`.  `Shaped` says of each
kind of frame where it can be (`Fits`), and that there is one loop over the error procedures
at most.  The rest reads the statics off the stack: modules are loaded beyond the end of the
run unit just while the second frame is `cob_call_with_exception_check` (`UnloadOK`), a
`longjmp` goes to frame 2 (`JumpOK`), and what the top frame is tells whether the run unit is
initialised and how often it was torn down (`LifeOK`).  The lemmas `Pushed`, `Popped`, `Cut`
and `Replaced` say what the four ways to change a stack keep; each action is one or two of
them.  `NoUnloadUnderCheck` follows because modules go only when nothing postpones it, which
is when no checked call is on the stack.

`ExitProcsOnce` needs a second invariant, `LInv`, because a loop over the exit procedures reads
`h->next` of a list that its procedures may have changed.  What relates the list the loop began
with to the list as it is now is `StayedInPlace`: the procedures that stayed installed are in
both, in the same order, and everything that was installed or moved since is before them (it
was put at the front).  A loop that is under way is then in one of two states: `Called`, it has
called all that stayed up to its place (`RanUpTo`), or `Goes`, it has stepped to the next one.
Inserting at the front, and unlinking a node that is not the loop's, keep both; unlinking the
loop's own node makes its place `FREED`.  `StackOK` says this of every loop of the stack, since
a procedure that stops the run starts another loop above; the loops below are at a call.
`LInv` also has what can stand on what (`Sits`), which with it is `TypeOK`.

`IndexedFile_proofs` proves every property of the runs `idx_share` and `idx_cursor`, for any run
units, keys and values, any alternate keys with or without duplicates and with suppressed values,
any access and lock modes (assumptions: `NAssumption`, `ModesAssumption`, `NoneAssumption`, and
`ValuesAssumption`: a key field has a size, so that there is a highest value):

| Theorem | Statement |
|---|---|
| `Inductive` | `Spec => []IInv` |
| `LocksAreTracked` | `Spec => []LocksTracked` |
| `LockedRecordsStay` | `Spec => LockedRecordStays` |
| `AlternatesLeadBack` | `Spec => []EntriesLeadBack` |
| `AllIndexed` | `Spec => []RecordsIndexed` |
| `AlternatesUnique` | `Spec => []UniqueAlternates` |
| `CursorInductive` | `Spec => [](IInv /\ CInv /\ StatusOK)` |
| `NextIsTheNearest` | `Spec => NextIsNearest` |
| `TypeCorrect` | `Spec => []TypeOK` |

`IInv` is `LockInv /\ OpInv /\ DataInv`.  `LockInv` says what a locker holds and what the program
remembers of it; `Raced` is the strengthening that `LockedRecordStays` needs: whoever has tested
the lock of a record that is now locked, and can still change it, was in the race when the lock
was granted.  `DataInv` is `torn \/ Agree` with what holds even of a torn file: one write cursor
(`CursorOnce`), one entry for a key without duplicates (`SecUnique`), none for a suppressed key
(`NoneSuppressed`).  `Agree` adds to the three properties what the steps of an update leave for
the next one: which entries of the record are already out (`Deleting`), that the entries of the
unchanged keys outlive the record between the delete and the write of a REWRITE (`Deleted`), and
that the record is there while its keys are written (`Writing`).  The three properties need each
other: DELETE takes out the entry of a unique key whoever's it is, and that it is the record's own
(`OwnEntry`) follows from `RecordsIndexed` and `SecUnique`; that a WRITE into a unique index
collides with nobody but those it finds follows from them too.  There is one lemma per action for
the locks and one for the data; `QuietData` serves all the steps that change no database.

`NextIsNearest` relates what a program knows, the entry it read last or was put before by OPEN or
START, to what the next READ NEXT or READ PREVIOUS delivers.  The code keeps no such entry: it has
an index, a saved key and place for each index, `record_first`, `flag_end_of_file` and
`flag_begin_of_file`, and searches again on every statement.  `CInv` is that these agree (`Known`): at
the end the program knows of `Top`, at the beginning of `Zero`, and anywhere between the saved place of
the index in use is the entry known, which is still due only while `record_first` says so.  It needs
the types (`PriOK`, `SecOK`, `OpsOK`), since a search has a least and a greatest entry only if numbers
of duplicates are bounded in an index (`Bounded`).  `Order` has the six facts about `Before`;
`FirstDelivered`, `LastDelivered`, `NextDelivered` and `PreviousDelivered` say of each search of
`indexed_read_next` that it comes to the nearest entry of whatever the index holds by now
(`Delivers`), and `Searches` which of them a statement makes.  `CInv` is stable under the steps
of other run units because none of them touches the place of another (`CursorOfStep`), and
`Delivers` asks nothing of what the index held when the place was saved.

`SortFile_proofs` proves every property of the run `sort`, for any key fields and directions, any
sort memory of four records or more, any number of records, blocks, passes and GIVING files
(assumptions: `CapacityAssumption`, which is what `cob_file_sort_process` needs, `KeysAssumption`,
`SizeAssumption`):

| Theorem | Statement |
|---|---|
| `Inductive` | `Spec => []Inv` |
| `TypeCorrect` | `Spec => []TypeOK` |
| `SortReturnIsTrue` | `Spec => []SortReturnTells` |
| `Sorts` | `Spec => SortsRecords`: SORT implements `Sorting` |

The argument goes from the inside out.  `BeforeTransitive`, `BeforeIrreflexive` and `BeforeTotal`:
`cob_file_sort_compare` orders records whose `unique` numbers differ.  `MergeSorts`: two sorted
blocks without a common record merge into a sorted one with the records of both; `Merging` is the
invariant of that loop (what is out is sorted, and before whatever is next in either block).
`PassGood`: a pass keeps `Good` (sorted blocks, no record in two of them) and the records, and
halves the longer queue; `PassesGood`: as many passes as the first queue has blocks are enough, so
that `cob_sort_queues` ends with one block and `cob_file_sort_process` with two.  That needs
`Balanced`: the first queue or file is at most one block longer than the second.  `Merge` and
`Passes` are recursive functions; the prover has no induction over them, so each is counted up
(`CountingUp`): a set of numbers that has 0 and, with a number, the next one has no least number
that it lacks.

`Inv` is `DataInv /\ CountInv /\ PartInv /\ GivenInv`.  `DataInv` says that queues, files and the
last two blocks are `Good` and share no record, that `dest` names the file whose turn it is
(`Turn`), and that nothing is in queues and files once retrieval has begun.  A RELEASE adds one
record to what is kept (`SubmitKeeps`), a RETURN takes out the one that is before all others
(`RetrieveKeeps`, from `ProcessedIs` and `HeadTaken`); both steps of `Sorting` are just that.
`GivenInv` says for each GIVING file that what it holds is sorted and before all that is left
(`Ahead`), and that nothing is lost for it (`Going`).  `AllReached` is the heart of
`SortReturnTells`: the inner loop stops at the first permanent error, so that while no file was
given up it has reached every open one.

`SequentialFile_proofs` proves what READ delivers, what REWRITE replaces and what WRITE leaves, for files of any length,
records up to nine characters (a length is one cell), and any files to go on with (assumptions:
`ContentsAssumption`, `SizesAssumption`, `RecordsAssumption`, `AdvancesAssumption`), under two
hypotheses, each a point where the code goes astray:

* `FilesEnd`: no line sequential file ends in a CR (the loop of `lineseq_read` would not end, 2652),
  and the last line of none has `record_max` characters or more without LF (2715: with COB_LS_SPLIT
  the last character of a piece of exactly `record_max` is read twice).  It asks nothing of files
  shorter than a record.
* `LinesAdvance`: no ADVANCING 0 LINES, which would write files that end in a CR.

| Theorem | Statement |
|---|---|
| `Inductive` | `Spec => []IInv` |
| `ReadsInOrder` | `Spec => ReadIsNextRecord` |
| `Rewrites` | `Spec => RewriteReplaces` |
| `TypeCorrect` | `Spec => []TypeOK` |
| `WritesReadBack` | `Spec => WhatIsWrittenIsRead` |

`IInv` is `Types /\ LineInv /\ VariableInv /\ DoneInv`.  `SoFar` is the invariant of the loop over
`getc`: record and status are those of the cells that were passed, and none of them ends the line
(`Plain`); `LineDone` and `LineCut` say that with the character now at hand the line is the one of the
reference definition, `CharDelivers` that the steps back behind a CR and behind a full record end at
the right place.  With COB_LS_SPLIT a record may also start inside a line, behind `record_max`
characters of it (`LineStart`).  `VariableInv` says that the descriptor stands where a record starts, or
is `Astray`: behind a place where the file is no chain of records, whence it never comes back.
`DoneInv` is what REWRITE trusts: after READ, `record_off` or the position less `record->size` is where
the record last read lies, or at least inside one record of the chain (`Room`, when the READ ended with
04).  A REWRITE leaves line ends, lengths and the starts of records alone (`OverLines`, `StartsKept`,
`VariableOver`), so that all other records are what they were (`OverOthers`, `VariableOthers`).  The
chain of records is a recursive function; `StartsIs` and `NoneBetween` count it up (`CountingUp`).

For `WhatIsWrittenIsRead` there is `WInv`: while the file is open OUTPUT, what it would be after CLOSE
(`Whole`: a line left open by AFTER is ended) holds just the records written, unless one went on the
line of another.  What a file holds is a recursive function too; `RecordsAre` states it step by step, and
`OneMore` that a file which continues another one (`Extends`) holds its records and the next.  A WRITE
adds blank lines, a line and blank lines (`TextWritten`, `OpenLineWritten`: the first line feed of
AFTER ends the open line), or a length and a record (`RecordAdded`).

Proved but not in a run of their own, because another property of the run stands on
them: `TypeOK` of all of these modules but `SortFile` (whose run checks it), `LockHasHandle`, `LockCovers`,
`CloseWithLockIsFinal`, `CursorOK`, `ModuleIsOwn`.

Only model-checked: liveness (`CallsReturn`, `ReadsEnd`,
`EndsComeToAnEnd`, `StatementsReturn`: fairness is beyond the prover), and everything about
reports (the page operators are recursive: a footing is printed by what calls for it).

## What is not modelled

* `fileio.c`: code for Windows, for EXTFH and for file handlers other than the
  system's own; special files (stdin, stdout, pipes); EXTERNAL files, which CANCEL closes but
  does not free; the order of `file_cache`
  and what other processes do between two unlocks of one COMMIT; `fsync`.
* Relative files: variable record length, device errors, READ FIRST/LAST (reached
  only through EXTFH), files without RELATIVE KEY.
* Sequential files: COB_LS_NULLS, COB_LS_FIXED, COB_LS_USES_CR, COB_LS_VALIDATE off, tabs and
  form feeds, printer files, device errors, fixed-size SEQUENTIAL records, ADVANCING on
  variable-length files.
* Linage: ADVANCING 0 LINES, OPEN EXTEND, device errors of the stream.
* Indexed files: the build without an environment (`bdb_env` NULL), handlers other than
  Berkeley DB, partial keys, record sizes (39, 43), OPTIONAL files; the Concurrent Data Store
  of Berkeley DB is modelled from its use: one write cursor at a time, readers are atomic.
* SORT: errors of the temporary files, a sort memory of fewer than four records,
  leaving a procedure by GO TO; collating sequences are the order of the keys.
* CALL: the conversion of names, ENTRY points, contained programs, program pointers,
  system routines, `cob_try_preload` while the program runs, `flag_no_phys_canc`, the
  symbols a loader finds in other libraries.
* Run unit: COB_CORE_ON_ERROR, checked calls inside checked calls, dumps, what
  `cob_exit_fileio` does with the files (that is `StopRun` of `FileShare`).
* Reports: 01 entries that have a LINE themselves, several groups of one type, PRESENT WHEN,
  GROUP INDICATE, sums of sums across (crossfooting), RESET, reports without PAGE LIMIT, CODE,
  what a line looks like.
* The components marked `not_modelled` in `PROJECT.json`, each with its reason.  The map
  covers a small share of the repository by lines: most of it is the compiler (a batch
  translation), tables, digit arithmetic, formatting and screen handling.

## Plan

The modules of the table above are done.  What is left, in this order:

1. `VirtualHeap` (`fileio.c` 10930-11266): the segments of a heap, against one array of bytes.
2. `Profiling` (`profiling.c`): the stack of procedures under PERFORM, GO TO and EXIT.
3. `StringStatements` (`strings.c`): INSPECT, STRING and UNSTRING as state machines over
   their static buffers, against a reference definition of what the statements do.
4. `Replace` (`cobc/replace.c`): the two token queues, against replacement of a whole text.
5. `ReportWriter` with its page operators written without RECURSIVE, and proofs about it.
