------------------------------ MODULE FileShare ------------------------------
(***************************************************************************)
(* How run units share the non-indexed files of libcob/fileio.c: OPEN,     *)
(* CLOSE, WRITE, COMMIT, ROLLBACK, UNLOCK, DELETE FILE, CANCEL and the end *)
(* of the run unit, with one action per system call that other processes   *)
(* can observe (access, open, fcntl, unlock, close).                       *)
(*                                                                         *)
(* A run unit is one process: its locks are POSIX record locks, owned by   *)
(* the process and the inode and dropped by ANY close of that inode.  A    *)
(* cob_file is a connector; several connectors may be assigned to one path.*)
(***************************************************************************)
CONSTANTS
  Procs,        \* run units (processes)
  Conns,        \* the cob_files of a program
  Paths,        \* file names after cob_chk_file_mapping
  Inodes,       \* bound: files that exist or are still open at one time
  PathOf,       \* the ASSIGN of a connector
  Optional,     \* SELECT OPTIONAL connectors (flag_optional)
  LineSeq,      \* LINE SEQUENTIAL connectors: written through a FILE buffer
  LockModeExcl, \* connectors with LOCK MODE EXCLUSIVE (COB_LOCK_EXCLUSIVE)
  NONE          \* no inode, no descriptor (-1)

ASSUME PathOfAssumption == PathOf \in [Conns -> Paths]
ASSUME SubsetAssumption ==
  Optional \subseteq Conns /\ LineSeq \subseteq Conns /\ LockModeExcl \subseteq Conns
ASSUME NoneAssumption == NONE \notin Inodes /\ NONE \notin Conns

VARIABLES
  dir,     \* path -> inode
  data,    \* inode -> the run units whose records are in the file
  lock,    \* inode -> process -> its fcntl lock
  conn,    \* process -> connector -> cob_file
  op,      \* process -> the OPEN or CLOSE it is inside of
  cache,   \* process -> file_cache
  exiting, \* processes inside cob_exit_fileio_closeall
  errno,   \* process -> errno
  status,  \* process -> last FILE STATUS
  kept,    \* history: process -> connectors whose lock it has not given up
  closedWithLock  \* history: process -> cob_files that a CLOSE WITH LOCK closed

vars == <<dir, data, lock, conn, op, cache, exiting, errno, status, kept,
          closedWithLock>>

OpenModes == {"INPUT", "OUTPUT", "I_O", "EXTEND"}
Sharing == {"ALL_OTHER", "OPEN_EXCLUSIVE"}
CloseOpts == {"NORMAL", "LOCK", "NO_REWIND", "UNIT"}
Status == {"00", "05", "07", "30", "35", "37", "38", "41", "42", "61"}
Errno == {"0", "ENOENT", "EACCES", "other"}
LockType == {"none", "RD", "WR"}

Cob_file == [mode: OpenModes \cup {"CLOSED", "LOCKED"}, fd: Inodes \cup {NONE},
             nonexistent: BOOLEAN, openExcl: BOOLEAN, buffered: BOOLEAN]

\* A cob_file as cob_file_malloc leaves it.
NewFile == [mode |-> "CLOSED", fd |-> NONE, nonexistent |-> FALSE,
            openExcl |-> FALSE, buffered |-> FALSE]

\* Idle, or inside cob_file_open before open() ("open") or fcntl() ("fcntl"),
\* or inside cob_file_close between the unlock and the close ("close").
Op == [pc: {"idle", "open", "fcntl", "close"}, c: Conns \cup {NONE},
       mode: OpenModes, nx: BOOLEAN, fd: Inodes \cup {NONE}, opt: CloseOpts]
Idle == [pc |-> "idle", c |-> NONE, mode |-> "INPUT", nx |-> FALSE, fd |-> NONE,
         opt |-> "NORMAL"]

Ready(p) == op[p].pc = "idle" /\ p \notin exiting
Closed(f) == f.mode \in {"CLOSED", "LOCKED"}

\* The connector becomes f.
SetConn(p, c, f) == conn' = [conn EXCEPT ![p][c] = f]

Exclusive(p, c) == conn[p][c].openExcl \/ c \in LockModeExcl  \* COB_FILE_EXCLUSIVE

Init ==
  /\ dir \in [Paths -> {NONE}]
  /\ data = [i \in Inodes |-> {}]
  /\ lock = [i \in Inodes |-> [p \in Procs |-> "none"]]
  /\ conn = [p \in Procs |-> [c \in Conns |-> NewFile]]
  /\ op = [p \in Procs |-> Idle]
  /\ cache = [p \in Procs |-> {}]
  /\ exiting = {}
  /\ errno = [p \in Procs |-> "0"]
  /\ status = [p \in Procs |-> "00"]
  /\ kept = [p \in Procs |-> {}]
  /\ closedWithLock = [p \in Procs |-> {}]

-----------------------------------------------------------------------------
(* The kernel. *)

\* The process has a descriptor on inode i, in a connector or in cob_file_open.
HasDescriptor(p, i) ==
  (\E c \in Conns : conn[p][c].fd = i) \/ (op[p].pc = "fcntl" /\ op[p].fd = i)

\* An inode that open (O_CREAT) may use for a new file.
FreeInode(i) ==
  /\ \A n \in Paths : dir[n] # i
  /\ \A p \in Procs : ~HasDescriptor(p, i)

LockFor(mode) == IF mode = "INPUT" THEN "RD" ELSE "WR"

ConflictIgnored(p, i, type) == FALSE   \* mutant: the result of fcntl is not tested

\* fcntl (F_SETLK) fails: another process holds a lock that conflicts.
Conflict(p, i, type) ==
  \E q \in Procs \ {p} :
    lock[i][q] = "WR" \/ (type = "WR" /\ lock[i][q] = "RD")

\* The connectors of p that still count on p's lock on inode i.
KeptOn(p, i) == {c \in kept[p] : conn[p][c].fd = i}

\* F_UNLCK, and equally the close of any descriptor of the inode.
DropLock(p, i) ==
  /\ lock' = [lock EXCEPT ![i][p] = "none"]
  /\ kept' = [kept EXCEPT ![p] = @ \ KeptOn(p, i)]

-----------------------------------------------------------------------------
(* cob_open and cob_file_open. *)

\* mutant: file_cache is searched for the name of the file
CobCacheFileByName(p, c) ==
  cache' = [cache EXCEPT ![p] = IF \E d \in @ : PathOf[d] = PathOf[c] THEN @ ELSE @ \cup {c}]

\* cob_cache_file: every connector that reaches its open is in file_cache.
CobCacheFile(p, c) == cache' = [cache EXCEPT ![p] = @ \cup {c}]

\* The early returns of cob_open.
CobOpenRefused(p, c) ==
  /\ Ready(p)
  /\ conn[p][c].mode # "CLOSED"
  /\ status' = [status EXCEPT ![p] =
                  IF conn[p][c].mode = "LOCKED" THEN "38" ELSE "41"]
  /\ UNCHANGED <<dir, data, lock, conn, op, cache, exiting, errno, kept, closedWithLock>>

\* cob_open up to and including access () in cob_file_open.
CobOpen(p, c, mode, sharing) ==
  LET missing == dir[PathOf[c]] = NONE
      return35 == missing /\ mode # "OUTPUT" /\ c \notin Optional
  IN
  /\ Ready(p)
  /\ conn[p][c].mode = "CLOSED"
  /\ CobCacheFile(p, c)
  /\ SetConn(p, c, [conn[p][c] EXCEPT !.nonexistent = FALSE, !.fd = NONE,
                       !.openExcl = (sharing = "OPEN_EXCLUSIVE")])
  /\ errno' = [errno EXCEPT ![p] = IF missing THEN "ENOENT" ELSE "0"]
  /\ op' = [op EXCEPT ![p] =
              IF return35 THEN Idle
              ELSE [Idle EXCEPT !.pc = "open", !.c = c, !.mode = mode, !.nx = missing]]
  /\ status' = [status EXCEPT ![p] = IF return35 THEN "35" ELSE @]
  /\ UNCHANGED <<dir, data, lock, exiting, kept, closedWithLock>>

\* open () or fopen () that creates the file when it is missing; a LINE
\* SEQUENTIAL I-O uses "r+", which never creates.
Creates(o) ==
  \/ o.mode \in {"OUTPUT", "EXTEND"}
  \/ o.mode = "I_O" /\ o.nx /\ o.c \notin LineSeq

\* open () succeeds on inode i; O_TRUNC empties the file before it is locked.
OpenFile(p, i) ==
  LET o == op[p]  n == PathOf[o.c]  new == dir[n] = NONE IN
  /\ o.pc = "open"
  /\ IF new THEN Creates(o) /\ FreeInode(i) ELSE i = dir[n]
  /\ dir' = [dir EXCEPT ![n] = i]
  /\ data' = IF new \/ o.mode = "OUTPUT" THEN [data EXCEPT ![i] = {}] ELSE data
  /\ SetConn(p, o.c, [conn[p][o.c] EXCEPT !.mode = o.mode])
  /\ op' = [op EXCEPT ![p] =
              [o EXCEPT !.pc = "fcntl", !.fd = i,
                        !.nx = o.nx /\ (o.mode = "OUTPUT" => o.c \in LineSeq)]]
  /\ errno' = [errno EXCEPT ![p] = "0"]
  /\ UNCHANGED <<lock, cache, exiting, status, kept, closedWithLock>>

\* open () fails with ENOENT: the file vanished since access (), or it is an
\* optional file that is not created.
OpenMissing(p) ==
  LET o == op[p] IN
  /\ o.pc = "open"
  /\ dir[PathOf[o.c]] = NONE
  /\ ~Creates(o)
  /\ errno' = [errno EXCEPT ![p] = "ENOENT"]
  /\ op' = [op EXCEPT ![p] = Idle]
  /\ IF o.c \in Optional
     THEN /\ SetConn(p, o.c, [conn[p][o.c] EXCEPT !.mode = o.mode, !.nonexistent = TRUE])
          /\ status' = [status EXCEPT ![p] = "05"]
     ELSE /\ conn' = conn
          /\ status' = [status EXCEPT ![p] = "35"]
  /\ UNCHANGED <<dir, data, lock, cache, exiting, kept, closedWithLock>>

\* open () fails for another reason (permissions, a directory, no descriptors).
OpenFails(p) ==
  /\ op[p].pc = "open"
  /\ \E e \in {"EACCES", "other"} :
       /\ errno' = [errno EXCEPT ![p] = e]
       /\ status' = [status EXCEPT ![p] = IF e = "EACCES" THEN "37" ELSE "30"]
  /\ op' = [op EXCEPT ![p] = Idle]
  /\ UNCHANGED <<dir, data, lock, conn, cache, exiting, kept, closedWithLock>>

\* fcntl (F_SETLK) grants the lock; it replaces, and so may downgrade, a lock
\* the process holds on the inode through another connector.
LockGranted(p) ==
  LET o == op[p]  i == o.fd  type == LockFor(o.mode)
      downgraded == {c \in KeptOn(p, i) : type = "RD" /\ conn[p][c].mode # "INPUT"}
  IN
  /\ o.pc = "fcntl"
  /\ ~Conflict(p, i, type)
  /\ lock' = [lock EXCEPT ![i][p] = type]
  /\ kept' = [kept EXCEPT ![p] = (@ \ downgraded) \cup {o.c}]
  /\ SetConn(p, o.c, [conn[p][o.c] EXCEPT !.fd = i, !.buffered = FALSE])
  /\ op' = [op EXCEPT ![p] = Idle]
  /\ status' = [status EXCEPT ![p] = IF o.c \in Optional /\ o.nx THEN "05" ELSE "00"]
  /\ UNCHANGED <<dir, data, cache, exiting, errno, closedWithLock>>

LockRefusedWaits(p) == FALSE   \* mutant: F_SETLKW, the OPEN waits for the lock

LockRefusedStillOpen(p) ==     \* mutant: open_mode is not reset
  LET o == op[p] IN
  /\ o.pc = "fcntl"
  /\ Conflict(p, o.fd, LockFor(o.mode))
  /\ DropLock(p, o.fd)
  /\ op' = [op EXCEPT ![p] = Idle]
  /\ errno' = [errno EXCEPT ![p] = "other"]
  /\ status' = [status EXCEPT ![p] = "61"]
  /\ UNCHANGED <<dir, data, conn, cache, exiting, closedWithLock>>

\* fcntl fails: the connector is closed again, and with the descriptor goes
\* every lock the process had on the inode.
LockRefused(p) ==
  LET o == op[p] IN
  /\ o.pc = "fcntl"
  /\ Conflict(p, o.fd, LockFor(o.mode))
  /\ DropLock(p, o.fd)
  /\ SetConn(p, o.c, [conn[p][o.c] EXCEPT !.mode = "CLOSED"])
  /\ op' = [op EXCEPT ![p] = Idle]
  /\ errno' = [errno EXCEPT ![p] = "other"]
  /\ status' = [status EXCEPT ![p] = "61"]
  /\ UNCHANGED <<dir, data, cache, exiting, closedWithLock>>

-----------------------------------------------------------------------------
(* Records written, and the verbs that give locks up. *)

\* A WRITE: write () for (record) sequential and relative files, the FILE
\* buffer (which the C library may flush at any time) for line sequential ones.
CobWrite(p, c) ==
  LET f == conn[p][c] IN
  /\ Ready(p)
  /\ f.fd # NONE
  /\ f.mode \in (IF c \in LineSeq THEN {"OUTPUT", "EXTEND"}
                                  ELSE {"OUTPUT", "EXTEND", "I_O"})
  /\ \E later \in (IF c \in LineSeq THEN BOOLEAN ELSE {FALSE}) :
       /\ data' = IF later THEN data ELSE [data EXCEPT ![f.fd] = @ \cup {p}]
       /\ SetConn(p, c, [f EXCEPT !.buffered = later])
  /\ status' = [status EXCEPT ![p] = "00"]
  /\ UNCHANGED <<dir, lock, op, cache, exiting, errno, kept, closedWithLock>>

\* cob_file_unlock gives the lock of inode i up unless the file is exclusive;
\* the records still in a FILE buffer stay there.
UnlocksExclusive(p, c) == conn[p][c].fd # NONE   \* mutant: lock_mode not tested
Unlocks(p, c) == conn[p][c].fd # NONE /\ ~Exclusive(p, c)
Unlock(p, cs) ==
  LET released == {conn[p][c].fd : c \in {d \in cs : Unlocks(p, d)}} IN
  /\ lock' = [i \in Inodes |->
                IF i \in released THEN [lock[i] EXCEPT ![p] = "none"] ELSE lock[i]]
  /\ kept' = [kept EXCEPT ![p] = {c \in @ : conn[p][c].fd \notin released}]

CobUnlockFile(p, c) ==
  /\ Ready(p)
  /\ Unlock(p, {c})
  /\ status' = [status EXCEPT ![p] = "00"]
  /\ UNCHANGED <<dir, data, conn, op, cache, exiting, errno, closedWithLock>>

\* COMMIT and ROLLBACK are the same loop over file_cache.
CobCommit(p) ==
  /\ Ready(p)
  /\ Unlock(p, cache[p])
  /\ UNCHANGED <<dir, data, conn, op, cache, exiting, errno, status, closedWithLock>>

\* errno_cob_sts (COB_STATUS_00_SUCCESS).
Errno_cob_sts(e) ==
  CASE e = "ENOENT" -> "35" [] e = "EACCES" -> "37" [] OTHER -> "00"

\* DELETE FILE.  A successful unlink () leaves errno as it was, and
\* errno_cob_sts looks at errno whether or not unlink () failed.
CobDeleteFile(p, c) ==
  LET n == PathOf[c] IN
  /\ Ready(p)
  /\ conn[p][c].mode = "CLOSED"
  /\ \/ /\ dir[n] # NONE
        /\ dir' = [dir EXCEPT ![n] = NONE]
        /\ errno' = errno
     \/ /\ dir[n] = NONE
        /\ dir' = dir
        /\ errno' = [errno EXCEPT ![p] = "ENOENT"]
  /\ status' = [status EXCEPT ![p] = Errno_cob_sts(errno'[p])]
  /\ UNCHANGED <<data, lock, conn, op, cache, exiting, kept, closedWithLock>>

CobDeleteFileRefused(p, c) ==
  /\ Ready(p)
  /\ conn[p][c].mode # "CLOSED"
  /\ status' = [status EXCEPT ![p] =
                  IF conn[p][c].mode = "LOCKED" THEN "38" ELSE "41"]
  /\ UNCHANGED <<dir, data, lock, conn, op, cache, exiting, errno, kept, closedWithLock>>

-----------------------------------------------------------------------------
(* cob_close and cob_file_close; remfil is set by CANCEL only. *)

\* Closes that do not reach cob_file_close, and the UNIT/REEL close that
\* leaves the file open.  All of them forget the sharing of the OPEN.  WITH LOCK
\* an optional file that is not there becomes CLOSED, not LOCKED.
CobCloseQuick(p, c, opt) ==
  LET f == conn[p][c] IN
  /\ Ready(p)
  /\ Closed(f) \/ f.nonexistent \/ opt = "UNIT"
  /\ SetConn(p, c, [f EXCEPT !.openExcl = FALSE,
                       !.mode = IF ~Closed(f) /\ f.nonexistent THEN "CLOSED" ELSE @])
  /\ status' = [status EXCEPT ![p] = IF Closed(f) THEN "42"
                                     ELSE IF f.nonexistent THEN "00" ELSE "07"]
  /\ UNCHANGED <<dir, data, lock, op, cache, exiting, errno, kept, closedWithLock>>

\* cob_file_free; the program called again begins with a new cob_file, which no
\* CLOSE WITH LOCK has closed.
CobFileFree(p, c) ==
  /\ SetConn(p, c, NewFile)
  /\ cache' = [cache EXCEPT ![p] = @ \ {c}]
  /\ closedWithLock' = [closedWithLock EXCEPT ![p] = @ \ {c}]

\* CANCEL of the program of a file with nothing to close: cob_close only sets
\* the status, and not even that when the file is CLOSED.
CobCancel(p, c) ==
  LET f == conn[p][c] IN
  /\ Ready(p)
  /\ Closed(f) \/ f.nonexistent
  /\ CobFileFree(p, c)
  /\ status' = [status EXCEPT ![p] = IF f.mode = "LOCKED" THEN "42"
                                     ELSE IF f.mode # "CLOSED" THEN "00" ELSE @]
  /\ UNCHANGED <<dir, data, lock, op, exiting, errno, kept>>

\* cob_close up to the unlock in cob_file_close, by a statement or, while the
\* run unit ends, by cob_exit_fileio_closeall.  For a CANCEL the cob_file that
\* CloseFd leaves is a new one already, as cob_file_free makes it.
CobClose(p, c, opt, remfil) ==
  LET f == conn[p][c] IN
  /\ op[p].pc = "idle"
  /\ p \in exiting => opt = "NORMAL" /\ ~remfil /\ c \in cache[p]
  /\ ~Closed(f) /\ ~f.nonexistent /\ opt # "UNIT"
  /\ DropLock(p, f.fd)
  /\ SetConn(p, c, [f EXCEPT !.openExcl = FALSE])
  /\ cache' = [cache EXCEPT ![p] = IF remfil THEN @ \ {c} ELSE @]
  /\ op' = [op EXCEPT ![p] = [Idle EXCEPT !.pc = "close", !.c = c, !.opt = opt]]
  /\ errno' = [errno EXCEPT ![p] = "0"]
  /\ UNCHANGED <<dir, data, exiting, status, closedWithLock>>

\* The open_mode that cob_close sets.
ModeAfterClose(opt) == IF opt = "LOCK" THEN "LOCKED" ELSE "CLOSED"

\* fclose () or close (): buffered records reach the file only now.
CloseFd(p) ==
  LET o == op[p]  f == conn[p][o.c] IN
  /\ o.pc = "close"
  /\ data' = IF f.buffered THEN [data EXCEPT ![f.fd] = @ \cup {p}] ELSE data
  /\ DropLock(p, f.fd)
  /\ SetConn(p, o.c, [f EXCEPT !.fd = NONE, !.buffered = FALSE,
                         !.mode = ModeAfterClose(o.opt)])
  /\ op' = [op EXCEPT ![p] = Idle]
  /\ status' = [status EXCEPT ![p] = IF o.opt = "NO_REWIND" THEN "07" ELSE "00"]
  /\ closedWithLock' = IF o.opt = "LOCK" THEN [closedWithLock EXCEPT ![p] = @ \cup {o.c}]
                       ELSE closedWithLock
  /\ UNCHANGED <<dir, cache, exiting, errno>>

-----------------------------------------------------------------------------
(* The end of a run unit, and the start of the next one in its place. *)

\* STOP RUN: cob_exit_fileio_closeall begins.
StopRun(p) ==
  /\ Ready(p)
  /\ exiting' = exiting \cup {p}
  /\ UNCHANGED <<dir, data, lock, conn, op, cache, errno, status, kept, closedWithLock>>

\* The loop of cob_exit_fileio_closeall has nothing left to close.
ClosedAll(p) == \A c \in cache[p] : Closed(conn[p][c]) \/ conn[p][c].nonexistent

\* What the kernel and a new run unit leave of process p.
Gone(p) ==
  /\ lock' = [i \in Inodes |-> [lock[i] EXCEPT ![p] = "none"]]
  /\ kept' = [kept EXCEPT ![p] = {}]
  /\ closedWithLock' = [closedWithLock EXCEPT ![p] = {}]
  /\ conn' = [conn EXCEPT ![p] = [c \in Conns |-> NewFile]]
  /\ op' = [op EXCEPT ![p] = Idle]
  /\ cache' = [cache EXCEPT ![p] = {}]
  /\ exiting' = exiting \ {p}
  /\ errno' = [errno EXCEPT ![p] = "0"]
  /\ status' = [status EXCEPT ![p] = "00"]

ExitRun(p) ==
  /\ p \in exiting /\ op[p].pc = "idle" /\ ClosedAll(p)
  /\ Gone(p)
  /\ UNCHANGED <<dir, data>>

\* A signal ends the process anywhere; FILE buffers are lost.
Killed(p) ==
  /\ Gone(p)
  /\ UNCHANGED <<dir, data>>

-----------------------------------------------------------------------------
OpenStep(p) == (\E i \in Inodes : OpenFile(p, i)) \/ OpenMissing(p) \/ OpenFails(p)
                 \/ LockGranted(p) \/ LockRefused(p)

Next ==
  \E p \in Procs :
    \/ \E c \in Conns :
         \/ CobOpenRefused(p, c)
         \/ \E mode \in OpenModes, sharing \in Sharing : CobOpen(p, c, mode, sharing)
         \/ CobWrite(p, c)
         \/ CobUnlockFile(p, c)
         \/ CobDeleteFile(p, c)
         \/ CobDeleteFileRefused(p, c)
         \/ \E opt \in CloseOpts :
              \/ CobCloseQuick(p, c, opt)
              \/ CobClose(p, c, opt, FALSE)
         \/ CobCancel(p, c)
         \/ CobClose(p, c, "NORMAL", TRUE)
    \/ OpenStep(p)
    \/ CobCommit(p)
    \/ CloseFd(p)
    \/ StopRun(p)
    \/ ExitRun(p)
    \/ Killed(p)

Spec == Init /\ [][Next]_vars

\* A process that is not killed keeps executing the call it is in.
FairSpec == Spec /\ \A p \in Procs : WF_vars(OpenStep(p)) /\ WF_vars(CloseFd(p))

-----------------------------------------------------------------------------
(* What the protocol promises. *)

\* Every variable has its type.
TypeOK ==
  /\ dir \in [Paths -> Inodes \cup {NONE}]
  /\ data \in [Inodes -> SUBSET Procs]
  /\ lock \in [Inodes -> [Procs -> LockType]]
  /\ conn \in [Procs -> [Conns -> Cob_file]]
  /\ op \in [Procs -> Op]
  /\ cache \in [Procs -> SUBSET Conns]
  /\ exiting \subseteq Procs
  /\ errno \in [Procs -> Errno]
  /\ status \in [Procs -> Status]
  /\ kept \in [Procs -> SUBSET Conns]
  /\ closedWithLock \in [Procs -> SUBSET Conns]

\* A connector that is between its open () and its fcntl ().
Opening(p, c) == op[p].pc = "fcntl" /\ op[p].c = c

\* A cob_file has a descriptor exactly while it is open on a file that exists:
\* the error paths of OPEN and the early returns of CLOSE leave neither an open
\* file without a descriptor nor a closed one that still has it.
HandleOK ==
  \A p \in Procs, c \in Conns :
    LET f == conn[p][c] IN
    /\ f.fd # NONE => ~Closed(f) /\ ~f.nonexistent
    /\ f.fd = NONE => Closed(f) \/ f.nonexistent \/ Opening(p, c)

\* No lock outlives the last descriptor of its process on the inode: nothing an
\* OPEN, a CLOSE or the end of a run unit does leaves a file locked by nobody.
LockHasHandle ==
  \A p \in Procs, i \in Inodes : lock[i][p] # "none" => \E c \in Conns : conn[p][c].fd = i

\* A connector that neither its program nor the close of another connector has
\* made give up its lock is really locked, for writing unless it is INPUT.
LockCovers ==
  \A p \in Procs : \A c \in kept[p] :
    LET f == conn[p][c] IN
    /\ f.fd # NONE
    /\ lock[f.fd][p] = "WR" \/ (f.mode = "INPUT" /\ lock[f.fd][p] = "RD")

\* Two run units that both keep their locks share a file only for INPUT.
WriterExclusion ==
  \A p, q \in Procs : \A c \in kept[p], d \in kept[q] :
    (p # q /\ conn[p][c].fd = conn[q][d].fd)
    => conn[p][c].mode = "INPUT" /\ conn[q][d].mode = "INPUT"

\* COMMIT, ROLLBACK and the end of the run unit reach every open file: an open
\* cob_file is in file_cache, unless the CANCEL that removed it is closing it.
OpenIsCached ==
  \A p \in Procs, c \in Conns :
    ~Closed(conn[p][c]) => c \in cache[p] \/ (op[p].pc = "close" /\ op[p].c = c)

\* A file opened exclusively keeps its lock until it is closed, whatever COMMIT,
\* ROLLBACK or UNLOCK its program executes, unless another connector of the
\* same process touches the file.
ExclusiveKeepsLock ==
  \A p \in Procs, c \in Conns :
    (/\ conn[p][c].openExcl
     /\ conn[p][c].fd # NONE
     /\ \A d \in Conns \ {c} : PathOf[d] # PathOf[c])
    => c \in kept[p]

\* The records of a file that an exclusively used connector has locked for
\* writing change only by its own process, or are all lost at once by an OPEN
\* OUTPUT that truncates before it asks for the lock.
DataBehindLock ==
  [][\A p \in Procs : \A c \in kept[p] :
       LET i == conn[p][c].fd IN
       (conn[p][c].mode # "INPUT" /\ data'[i] # data[i])
       => \/ data'[i] = data[i] \cup {p}
          \/ data'[i] = {} /\ \E q \in Procs : op[q].pc = "open" /\ op[q].mode = "OUTPUT"]_vars

\* A cob_file that CLOSE WITH LOCK has closed is not opened again as long as it
\* exists.  The comment on COB_CLOSE_LOCK in cob_file_close says "not in *this
\* runtime unit*": a CANCEL of the program undoes it, and a CLOSE WITH LOCK of an
\* optional file that is not there leaves it CLOSED.
CloseWithLockIsFinal ==
  \A p \in Procs : \A c \in closedWithLock[p] : conn[p][c].mode = "LOCKED"

\* An OPEN that has started returns, and so does a CLOSE.
CallsReturn == \A p \in Procs : op[p].pc # "idle" ~> op[p].pc = "idle"
=============================================================================
