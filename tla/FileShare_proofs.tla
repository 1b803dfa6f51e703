-------------------------- MODULE FileShare_proofs --------------------------
(***************************************************************************)
(* Proofs about FileShare for any number of run units, connectors, paths   *)
(* and inodes.  WriterExclusion is not inductive: it follows from what the *)
(* kernel guarantees of locks (Compatible) and from the bookkeeping that   *)
(* relates connectors, descriptors and locks (IInv).  On top of it: which  *)
(* run units keep the lock of an exclusive file, what that does for its    *)
(* records, that every open file is in file_cache, and that CLOSE WITH     *)
(* LOCK is final.                                                          *)
(***************************************************************************)
EXTENDS FileShare, TLAPS

\* A process inside OPEN or CLOSE works on a connector in the matching state.
OpOK ==
  \A p \in Procs :
    LET o == op[p] IN
    /\ o.pc # "idle" => o.c \in Conns
    /\ o.pc = "open" => conn[p][o.c].mode = "CLOSED" /\ conn[p][o.c].fd = NONE
                        /\ ~conn[p][o.c].nonexistent
    /\ o.pc = "fcntl" => /\ o.fd \in Inodes
                         /\ conn[p][o.c].mode = o.mode /\ conn[p][o.c].fd = NONE
                         /\ ~conn[p][o.c].nonexistent
    /\ o.pc = "close" => conn[p][o.c].fd \in Inodes

\* fcntl locks: a write lock of one process excludes every other lock.
Compatible ==
  \A i \in Inodes : \A p, q \in Procs :
    p # q /\ lock[i][p] = "WR" => lock[i][q] = "none"

IInv == TypeOK /\ OpOK /\ HandleOK /\ LockHasHandle /\ LockCovers /\ Compatible

LEMMA InitIInv == Init => IInv
  <1> SUFFICES ASSUME Init PROVE IInv
    OBVIOUS
  <1>1. TypeOK
    BY PathOfAssumption DEF Init, TypeOK, NewFile, Cob_file, Idle, Op, OpenModes,
       CloseOpts, LockType, Errno, Status
  <1>2. OpOK /\ HandleOK /\ LockHasHandle /\ LockCovers /\ Compatible
    BY DEF Init, OpOK, HandleOK, LockHasHandle, LockCovers, Compatible, NewFile,
       Idle, Closed, Opening
  <1> QED BY <1>1, <1>2 DEF IInv

\* SetConn changes one connector only.
LEMMA SetConnFacts ==
  ASSUME TypeOK, NEW p \in Procs, NEW c \in Conns, NEW f \in Cob_file, SetConn(p, c, f)
  PROVE  /\ conn' \in [Procs -> [Conns -> Cob_file]]
         /\ conn'[p][c] = f
         /\ \A q \in Procs, d \in Conns : q # p \/ d # c => conn'[q][d] = conn[q][d]
  <1>1. [conn[p] EXCEPT ![c] = f] \in [Conns -> Cob_file]
    BY DEF TypeOK
  <1>2. conn' = [conn EXCEPT ![p] = [conn[p] EXCEPT ![c] = f]]
    BY DEF SetConn
  <1> QED BY <1>1, <1>2 DEF TypeOK

\* A step that leaves locks alone, and every open descriptor with its mode.
LEMMA QuietLocks ==
  ASSUME IInv, UNCHANGED <<lock, kept>>,
         \A q \in Procs, d \in Conns : conn[q][d].fd # NONE =>
           conn'[q][d].fd = conn[q][d].fd /\ conn'[q][d].mode = conn[q][d].mode
  PROVE  LockHasHandle' /\ LockCovers' /\ Compatible'
  <1> USE NoneAssumption DEF IInv
  <1>1. LockHasHandle'
    BY DEF LockHasHandle
  <1>2. LockCovers'
    <2> SUFFICES ASSUME NEW q \in Procs, NEW d \in kept[q]
                 PROVE  /\ conn'[q][d].fd # NONE
                        /\ \/ lock[conn'[q][d].fd][q] = "WR"
                           \/ conn'[q][d].mode = "INPUT" /\ lock[conn'[q][d].fd][q] = "RD"
      BY DEF LockCovers
    <2>1. d \in Conns
      BY DEF TypeOK
    <2> QED BY <2>1 DEF LockCovers
  <1>3. Compatible'
    BY DEF Compatible
  <1> QED BY <1>1, <1>2, <1>3

\* A step that drops the lock of p on inode i.
LEMMA DropLocks ==
  ASSUME IInv, NEW p \in Procs, NEW i \in Inodes, DropLock(p, i),
         \A q \in Procs, d \in Conns : conn[q][d].fd # NONE /\ (q # p \/ conn[q][d].fd # i) =>
           conn'[q][d].fd = conn[q][d].fd /\ conn'[q][d].mode = conn[q][d].mode
  PROVE  /\ LockHasHandle' /\ LockCovers' /\ Compatible'
         /\ lock' \in [Inodes -> [Procs -> LockType]] /\ kept' \in [Procs -> SUBSET Conns]
  <1> USE NoneAssumption DEF IInv
  <1>1. /\ lock' \in [Inodes -> [Procs -> LockType]]
        /\ lock'[i][p] = "none"
        /\ \A j \in Inodes, q \in Procs : j # i \/ q # p => lock'[j][q] = lock[j][q]
    <2>1. [lock[i] EXCEPT ![p] = "none"] \in [Procs -> LockType]
      BY DEF TypeOK, LockType
    <2>2. lock' = [lock EXCEPT ![i] = [lock[i] EXCEPT ![p] = "none"]]
      BY DEF DropLock
    <2> QED BY <2>1, <2>2 DEF TypeOK
  <1>2. /\ kept' \in [Procs -> SUBSET Conns]
        /\ \A q \in Procs : kept'[q] \subseteq kept[q]
        /\ \A d \in kept'[p] : conn[p][d].fd # i
    BY DEF DropLock, KeptOn, TypeOK
  <1>3. LockHasHandle'
    <2> SUFFICES ASSUME NEW q \in Procs, NEW j \in Inodes, lock'[j][q] # "none"
                 PROVE  \E c \in Conns : conn'[q][c].fd = j
      BY DEF LockHasHandle
    <2>1. (j # i \/ q # p) /\ lock[j][q] # "none"
      BY <1>1
    <2>2. PICK c \in Conns : conn[q][c].fd = j
      BY <2>1 DEF LockHasHandle
    <2> QED BY <2>1, <2>2
  <1>4. LockCovers'
    <2> SUFFICES ASSUME NEW q \in Procs, NEW d \in kept'[q]
                 PROVE  /\ conn'[q][d].fd # NONE
                        /\ \/ lock'[conn'[q][d].fd][q] = "WR"
                           \/ conn'[q][d].mode = "INPUT" /\ lock'[conn'[q][d].fd][q] = "RD"
      BY DEF LockCovers
    <2>1. d \in kept[q] /\ d \in Conns /\ (q # p \/ conn[q][d].fd # i)
      BY <1>2 DEF TypeOK
    <2>2. conn[q][d].fd # NONE /\ conn[q][d].fd \in Inodes
      BY <2>1 DEF LockCovers, TypeOK, Cob_file
    <2>3. conn'[q][d].fd = conn[q][d].fd /\ conn'[q][d].mode = conn[q][d].mode
      BY <2>1, <2>2
    <2>4. lock'[conn[q][d].fd][q] = lock[conn[q][d].fd][q]
      BY <1>1, <2>1, <2>2
    <2> QED BY <2>1, <2>2, <2>3, <2>4 DEF LockCovers
  <1>5. Compatible'
    BY <1>1 DEF Compatible
  <1> QED BY <1>1, <1>2, <1>3, <1>4, <1>5

LEMMA IdleOp == Idle \in Op /\ Idle.pc = "idle"
  BY DEF Idle, Op, OpenModes, CloseOpts

LEMMA CobOpenStep ==
  ASSUME IInv, NEW p \in Procs, NEW c \in Conns, NEW mode \in OpenModes,
         NEW sharing \in Sharing, CobOpen(p, c, mode, sharing)
  PROVE  IInv'
  <1> USE NoneAssumption DEF IInv
  <1>1. PICK f \in Cob_file : /\ SetConn(p, c, f) /\ f.fd = NONE /\ f.mode = conn[p][c].mode
                             /\ f.nonexistent = FALSE
    <2> DEFINE g == [conn[p][c] EXCEPT !.nonexistent = FALSE, !.fd = NONE,
                       !.openExcl = (sharing = "OPEN_EXCLUSIVE")]
    <2>1. conn[p][c] \in Cob_file
      BY DEF TypeOK
    <2>2. g \in Cob_file /\ g.fd = NONE /\ g.mode = conn[p][c].mode /\ g.nonexistent = FALSE
      BY <2>1 DEF Cob_file
    <2> QED BY <2>2 DEF CobOpen
  <1>2. /\ conn' \in [Procs -> [Conns -> Cob_file]]
        /\ conn'[p][c].fd = NONE /\ conn'[p][c].mode = "CLOSED" /\ conn'[p][c].nonexistent = FALSE
        /\ \A q \in Procs, d \in Conns : q # p \/ d # c => conn'[q][d] = conn[q][d]
    BY <1>1, SetConnFacts DEF CobOpen
  <1>3. /\ op[p].pc = "idle" /\ op' \in [Procs -> Op]
        /\ op'[p].pc \in {"idle", "open"}
        /\ op'[p].pc = "open" => op'[p].c = c
        /\ \A q \in Procs : q # p => op'[q] = op[q]
    BY DEF CobOpen, TypeOK, Op, Idle, Ready, OpenModes, CloseOpts
  <1>4. UNCHANGED <<lock, kept>> /\ conn[p][c].fd = NONE
    BY <1>3 DEF CobOpen, HandleOK, Closed
  <1>5. TypeOK'
    BY <1>2, <1>3 DEF CobOpen, CobCacheFile, TypeOK, Errno, Status
  <1>6. OpOK'
    BY <1>2, <1>3 DEF OpOK
  <1>7. HandleOK'
    BY <1>2, <1>3 DEF HandleOK, Closed, Opening
  <1>8. LockHasHandle' /\ LockCovers' /\ Compatible'
    BY <1>2, <1>4, QuietLocks
  <1> QED BY <1>5, <1>6, <1>7, <1>8

LEMMA OpenFileStep ==
  ASSUME IInv, NEW p \in Procs, NEW i \in Inodes, OpenFile(p, i)
  PROVE  IInv'
  <1> USE NoneAssumption DEF IInv
  <1> DEFINE c == op[p].c
  <1>1. /\ c \in Conns /\ op[p].pc = "open" /\ op[p].mode \in OpenModes
        /\ conn[p][c].mode = "CLOSED" /\ conn[p][c].fd = NONE /\ conn[p][c].nonexistent = FALSE
        /\ conn[p][c] \in Cob_file
    BY DEF OpenFile, OpOK, TypeOK, Op, Cob_file
  <1>2. PICK f \in Cob_file : /\ SetConn(p, c, f) /\ f.fd = NONE /\ f.mode = op[p].mode
                             /\ f.nonexistent = FALSE
    <2> DEFINE g == [conn[p][c] EXCEPT !.mode = op[p].mode]
    <2>1. g \in Cob_file /\ g.fd = NONE /\ g.mode = op[p].mode /\ g.nonexistent = FALSE
      BY <1>1 DEF Cob_file
    <2>2. SetConn(p, c, g)
      BY DEF OpenFile
    <2> QED BY <2>1, <2>2
  <1>3. /\ conn' \in [Procs -> [Conns -> Cob_file]]
        /\ conn'[p][c].fd = NONE /\ conn'[p][c].mode = op[p].mode /\ conn'[p][c].nonexistent = FALSE
        /\ \A q \in Procs, d \in Conns : q # p \/ d # c => conn'[q][d] = conn[q][d]
    BY <1>1, <1>2, SetConnFacts
  <1>4. /\ op' \in [Procs -> Op] /\ op'[p].pc = "fcntl" /\ op'[p].fd = i
        /\ op'[p].c = c /\ op'[p].mode = op[p].mode
        /\ \A q \in Procs : q # p => op'[q] = op[q]
    <2> DEFINE nx == op[p].nx /\ (op[p].mode = "OUTPUT" => op[p].c \in LineSeq)
               o == [op[p] EXCEPT !.pc = "fcntl", !.fd = i, !.nx = nx]
    <2>1. op[p] \in Op
      BY DEF TypeOK
    <2>2. o \in Op /\ o.pc = "fcntl" /\ o.fd = i /\ o.c = c /\ o.mode = op[p].mode
      <3>1. nx \in BOOLEAN
        OBVIOUS
      <3> HIDE DEF nx
      <3> QED BY <2>1, <3>1 DEF Op
    <2>3. op' = [op EXCEPT ![p] = o]
      BY DEF OpenFile
    <2> HIDE DEF o, c
    <2> QED BY <2>2, <2>3 DEF TypeOK
  <1>5. UNCHANGED <<lock, kept>>
    BY DEF OpenFile
  <1>6. dir' \in [Paths -> Inodes \cup {NONE}] /\ data' \in [Inodes -> SUBSET Procs]
    BY DEF OpenFile, TypeOK
  <1>7. TypeOK'
    BY <1>3, <1>4, <1>6 DEF OpenFile, TypeOK, Errno, Status
  <1>8. OpOK'
    BY <1>1, <1>3, <1>4 DEF OpOK
  <1>9. HandleOK'
    BY <1>1, <1>3, <1>4 DEF HandleOK, Closed, Opening
  <1>10. LockHasHandle' /\ LockCovers' /\ Compatible'
    BY <1>1, <1>3, <1>5, QuietLocks
  <1> QED BY <1>7, <1>8, <1>9, <1>10

LEMMA OpenMissingStep ==
  ASSUME IInv, NEW p \in Procs, OpenMissing(p) \/ OpenFails(p)
  PROVE  IInv'
  <1> USE NoneAssumption DEF IInv
  <1> DEFINE c == op[p].c
  <1>1. /\ c \in Conns /\ op[p].pc = "open" /\ op[p].mode \in OpenModes
        /\ conn[p][c].mode = "CLOSED" /\ conn[p][c].fd = NONE /\ conn[p][c].nonexistent = FALSE
        /\ conn[p][c] \in Cob_file
    BY DEF OpenMissing, OpenFails, OpOK, TypeOK, Op, Cob_file
  <1>2. /\ op' \in [Procs -> Op] /\ op'[p].pc = "idle"
        /\ \A q \in Procs : q # p => op'[q] = op[q]
    <2>1. op' = [op EXCEPT ![p] = Idle]
      BY DEF OpenMissing, OpenFails
    <2> QED BY <2>1, IdleOp DEF TypeOK
  <1>3. UNCHANGED <<lock, kept>>
    BY DEF OpenMissing, OpenFails
  <1>4. /\ conn' \in [Procs -> [Conns -> Cob_file]]
        /\ conn'[p][c].fd = NONE
        /\ conn'[p][c].mode = "CLOSED" \/ conn'[p][c].nonexistent
        /\ \A q \in Procs, d \in Conns : q # p \/ d # c => conn'[q][d] = conn[q][d]
    <2>1. CASE conn' = conn
      BY <2>1, <1>1 DEF TypeOK
    <2>2. CASE conn' # conn
      <3> DEFINE g == [conn[p][c] EXCEPT !.mode = op[p].mode, !.nonexistent = TRUE]
      <3>1. g \in Cob_file /\ g.fd = NONE /\ g.nonexistent
        BY <1>1 DEF Cob_file
      <3>2. SetConn(p, c, g)
        BY <2>2 DEF OpenMissing, OpenFails
      <3> HIDE DEF g, c
      <3> QED BY <1>1, <3>1, <3>2, SetConnFacts
    <2> QED BY <2>1, <2>2
  <1>5. TypeOK'
    <2>1. errno' \in [Procs -> Errno] /\ status' \in [Procs -> Status]
      <3>1. CASE OpenMissing(p)
        BY <3>1 DEF OpenMissing, TypeOK, Errno, Status
      <3>2. CASE OpenFails(p)
        BY <3>2 DEF OpenFails, TypeOK, Errno, Status
      <3> QED BY <3>1, <3>2
    <2>2. UNCHANGED <<dir, data, cache, exiting, closedWithLock>>
      BY DEF OpenMissing, OpenFails
    <2> QED BY <1>2, <1>3, <1>4, <2>1, <2>2 DEF TypeOK
  <1>6. OpOK'
    BY <1>1, <1>2, <1>4 DEF OpOK
  <1>7. HandleOK'
    BY <1>1, <1>2, <1>4 DEF HandleOK, Closed, Opening
  <1>8. LockHasHandle' /\ LockCovers' /\ Compatible'
    BY <1>1, <1>3, <1>4, QuietLocks
  <1> QED BY <1>5, <1>6, <1>7, <1>8

\* A step that moves neither a connector, nor a call, nor a lock.
LEMMA QuietStep ==
  ASSUME IInv, UNCHANGED <<conn, op, lock, kept>>, TypeOK'
  PROVE  IInv'
  BY DEF IInv, OpOK, HandleOK, LockHasHandle, LockCovers, Compatible, Closed, Opening

LEMMA RefusalSteps ==
  ASSUME IInv, NEW p \in Procs,
         \/ \E c \in Conns : CobOpenRefused(p, c) \/ CobDeleteFile(p, c) \/ CobDeleteFileRefused(p, c)
         \/ StopRun(p)
  PROVE  IInv'
  <1>1. UNCHANGED <<conn, op, lock, kept>>
    BY DEF CobOpenRefused, CobDeleteFile, CobDeleteFileRefused, StopRun
  <1>2. UNCHANGED <<data, cache, closedWithLock>> /\ exiting' \subseteq Procs
    BY DEF CobOpenRefused, CobDeleteFile, CobDeleteFileRefused, StopRun, IInv, TypeOK
  <1>3. dir' \in [Paths -> Inodes \cup {NONE}]
    BY DEF CobOpenRefused, CobDeleteFile, CobDeleteFileRefused, StopRun, IInv, TypeOK
  <1>4. errno' \in [Procs -> Errno] /\ status' \in [Procs -> Status]
    BY DEF CobOpenRefused, CobDeleteFile, CobDeleteFileRefused, StopRun, IInv, TypeOK,
           Errno_cob_sts, Errno, Status
  <1>5. TypeOK'
    BY <1>1, <1>2, <1>3, <1>4 DEF IInv, TypeOK
  <1> QED BY <1>1, <1>5, QuietStep

LEMMA LockGrantedStep ==
  ASSUME IInv, NEW p \in Procs, LockGranted(p)
  PROVE  IInv'
  <1> USE NoneAssumption DEF IInv
  <1> DEFINE c == op[p].c
             i == op[p].fd
             type == LockFor(op[p].mode)
  <1>1. /\ c \in Conns /\ op[p].pc = "fcntl" /\ i \in Inodes
        /\ conn[p][c].mode = op[p].mode /\ conn[p][c].fd = NONE
        /\ conn[p][c].nonexistent = FALSE /\ conn[p][c] \in Cob_file
        /\ op[p].mode \in OpenModes
    BY DEF LockGranted, OpOK, TypeOK, Op, Cob_file
  <1>2. type = "WR" \/ (type = "RD" /\ op[p].mode = "INPUT")
    BY DEF LockFor
  <1>3. /\ conn' \in [Procs -> [Conns -> Cob_file]]
        /\ conn'[p][c].fd = i /\ conn'[p][c].mode = op[p].mode /\ conn'[p][c].nonexistent = FALSE
        /\ \A q \in Procs, d \in Conns : q # p \/ d # c => conn'[q][d] = conn[q][d]
    <2> DEFINE g == [conn[p][c] EXCEPT !.fd = i, !.buffered = FALSE]
    <2>1. g \in Cob_file /\ g.fd = i /\ g.mode = op[p].mode /\ g.nonexistent = FALSE
      BY <1>1 DEF Cob_file
    <2>2. SetConn(p, c, g)
      BY DEF LockGranted
    <2> HIDE DEF g, c, i
    <2> QED BY <1>1, <2>1, <2>2, SetConnFacts
  <1>4. /\ op' \in [Procs -> Op] /\ op'[p].pc = "idle"
        /\ \A q \in Procs : q # p => op'[q] = op[q]
    BY IdleOp DEF LockGranted, TypeOK
  <1>5. /\ lock' \in [Inodes -> [Procs -> LockType]] /\ lock'[i][p] = type
        /\ \A j \in Inodes, q \in Procs : j # i \/ q # p => lock'[j][q] = lock[j][q]
    <2>1. [lock[i] EXCEPT ![p] = type] \in [Procs -> LockType]
      BY <1>1, <1>2 DEF TypeOK, LockType
    <2>2. lock' = [lock EXCEPT ![i] = [lock[i] EXCEPT ![p] = type]]
      BY DEF LockGranted
    <2> HIDE DEF i, type
    <2> QED BY <1>1, <2>1, <2>2 DEF TypeOK
  <1>6. /\ kept' \in [Procs -> SUBSET Conns]
        /\ \A q \in Procs : q # p => kept'[q] = kept[q]
        /\ \A d \in kept'[p] : d # c =>
             /\ d \in kept[p]
             /\ conn[p][d].fd = i => type # "RD" \/ conn[p][d].mode = "INPUT"
    BY <1>1 DEF LockGranted, KeptOn, TypeOK
  <1>7. \A q \in Procs : q # p => lock[i][q] # "WR" /\ (type = "WR" => lock[i][q] # "RD")
    BY DEF LockGranted, Conflict
  <1>8. TypeOK'
    <2>1. status' \in [Procs -> Status]
      BY DEF LockGranted, TypeOK, Status
    <2>2. UNCHANGED <<dir, data, cache, exiting, errno, closedWithLock>>
      BY DEF LockGranted
    <2> QED BY <1>3, <1>4, <1>5, <1>6, <2>1, <2>2 DEF TypeOK
  <1> HIDE DEF c, i, type
  <1>9. OpOK'
    BY <1>1, <1>3, <1>4 DEF OpOK
  <1>10. HandleOK'
    BY <1>1, <1>3, <1>4 DEF HandleOK, Closed, Opening, OpenModes
  <1>11. LockHasHandle'
    <2> SUFFICES ASSUME NEW q \in Procs, NEW j \in Inodes, lock'[j][q] # "none"
                 PROVE  \E d \in Conns : conn'[q][d].fd = j
      BY DEF LockHasHandle
    <2>1. CASE j = i /\ q = p
      BY <2>1, <1>1, <1>3
    <2>2. CASE j # i \/ q # p
      <3>1. PICK d \in Conns : conn[q][d].fd = j
        BY <2>2, <1>5 DEF LockHasHandle
      <3>2. q # p \/ d # c
        BY <3>1, <1>1
      <3> QED BY <3>1, <3>2, <1>3
    <2> QED BY <2>1, <2>2
  <1>12. LockCovers'
    <2> SUFFICES ASSUME NEW q \in Procs, NEW d \in kept'[q]
                 PROVE  /\ conn'[q][d].fd # NONE
                        /\ \/ lock'[conn'[q][d].fd][q] = "WR"
                           \/ conn'[q][d].mode = "INPUT" /\ lock'[conn'[q][d].fd][q] = "RD"
      BY DEF LockCovers
    <2>1. CASE q = p /\ d = c
      BY <2>1, <1>1, <1>2, <1>3, <1>5
    <2>2. CASE q # p \/ d # c
      <3>1. d \in Conns /\ d \in kept[q] /\ conn'[q][d] = conn[q][d]
        <4>1. d \in kept[q]
          <5>1. CASE q = p
            BY <2>2, <5>1, <1>6
          <5>2. CASE q # p
            BY <5>2, <1>6
          <5> QED BY <5>1, <5>2
        <4>2. kept[q] \subseteq Conns
          BY DEF TypeOK
        <4> QED BY <2>2, <4>1, <4>2, <1>3
      <3>2. conn[q][d].fd # NONE /\ conn[q][d].fd \in Inodes
        BY <3>1 DEF LockCovers, TypeOK, Cob_file
      <3>3. CASE conn[q][d].fd = i /\ q = p
        BY <2>2, <3>1, <3>2, <3>3, <1>2, <1>5, <1>6
      <3>4. CASE conn[q][d].fd # i \/ q # p
        BY <3>1, <3>2, <3>4, <1>5 DEF LockCovers
      <3> QED BY <3>3, <3>4
    <2> QED BY <2>1, <2>2
  <1>13. Compatible'
    <2> SUFFICES ASSUME NEW j \in Inodes, NEW q \in Procs, NEW r \in Procs,
                        q # r, lock'[j][q] = "WR"
                 PROVE  lock'[j][r] = "none"
      BY DEF Compatible
    <2>1. lock[j][q] \in LockType /\ lock[j][r] \in LockType
      BY DEF TypeOK
    <2>2. CASE j = i /\ q = p
      <3>1. r # p /\ type = "WR"
        BY <2>2, <1>1, <1>5
      <3>2. lock'[j][r] = lock[j][r]
        BY <3>1, <1>5
      <3>3. lock[j][r] # "WR" /\ lock[j][r] # "RD"
        BY <2>2, <3>1, <1>7
      <3> QED BY <2>1, <3>2, <3>3 DEF LockType
    <2>3. CASE j = i /\ r = p
      <3>1. q # p /\ lock'[j][q] = lock[j][q]
        BY <2>3, <1>5
      <3> QED BY <2>3, <3>1, <1>7
    <2>4. CASE j # i \/ (q # p /\ r # p)
      BY <2>4, <1>5 DEF Compatible
    <2> QED BY <2>2, <2>3, <2>4
  <1> QED BY <1>8, <1>9, <1>10, <1>11, <1>12, <1>13

LEMMA LockRefusedStep ==
  ASSUME IInv, NEW p \in Procs, LockRefused(p)
  PROVE  IInv'
  <1> USE NoneAssumption DEF IInv
  <1> DEFINE c == op[p].c
             i == op[p].fd
  <1>1. /\ c \in Conns /\ op[p].pc = "fcntl" /\ i \in Inodes /\ DropLock(p, i)
        /\ conn[p][c].fd = NONE /\ conn[p][c].nonexistent = FALSE /\ conn[p][c] \in Cob_file
    BY DEF LockRefused, OpOK, TypeOK
  <1>2. /\ conn' \in [Procs -> [Conns -> Cob_file]]
        /\ conn'[p][c].fd = NONE /\ conn'[p][c].mode = "CLOSED"
        /\ \A q \in Procs, d \in Conns : q # p \/ d # c => conn'[q][d] = conn[q][d]
    <2> DEFINE g == [conn[p][c] EXCEPT !.mode = "CLOSED"]
    <2>1. g \in Cob_file /\ g.fd = NONE /\ g.mode = "CLOSED"
      BY <1>1 DEF Cob_file
    <2>2. SetConn(p, c, g)
      BY DEF LockRefused
    <2> HIDE DEF g, c
    <2> QED BY <1>1, <2>1, <2>2, SetConnFacts
  <1>3. /\ op' \in [Procs -> Op] /\ op'[p].pc = "idle"
        /\ \A q \in Procs : q # p => op'[q] = op[q]
    BY IdleOp DEF LockRefused, TypeOK
  <1>4. /\ errno' \in [Procs -> Errno] /\ status' \in [Procs -> Status]
        /\ UNCHANGED <<dir, data, cache, exiting, closedWithLock>>
    BY DEF LockRefused, TypeOK, Errno, Status
  <1> HIDE DEF c, i
  <1>5. /\ LockHasHandle' /\ LockCovers' /\ Compatible'
        /\ lock' \in [Inodes -> [Procs -> LockType]] /\ kept' \in [Procs -> SUBSET Conns]
    <2>1. \A q \in Procs, d \in Conns : conn[q][d].fd # NONE =>
            conn'[q][d].fd = conn[q][d].fd /\ conn'[q][d].mode = conn[q][d].mode
      BY <1>1, <1>2
    <2> QED BY <1>1, <2>1, DropLocks
  <1>6. TypeOK'
    BY <1>2, <1>3, <1>4, <1>5 DEF TypeOK
  <1>7. OpOK'
    BY <1>2, <1>3 DEF OpOK
  <1>8. HandleOK'
    BY <1>1, <1>2, <1>3 DEF HandleOK, Closed, Opening, c
  <1> QED BY <1>5, <1>6, <1>7, <1>8

LEMMA CobWriteStep ==
  ASSUME IInv, NEW p \in Procs, NEW c \in Conns, CobWrite(p, c)
  PROVE  IInv'
  <1> USE NoneAssumption DEF IInv
  <1>1. PICK b \in BOOLEAN : SetConn(p, c, [conn[p][c] EXCEPT !.buffered = b])
    BY DEF CobWrite
  <1>2. /\ conn' \in [Procs -> [Conns -> Cob_file]]
        /\ conn'[p][c].fd = conn[p][c].fd /\ conn'[p][c].mode = conn[p][c].mode
        /\ conn'[p][c].nonexistent = conn[p][c].nonexistent
        /\ \A q \in Procs, d \in Conns : q # p \/ d # c => conn'[q][d] = conn[q][d]
    <2> DEFINE g == [conn[p][c] EXCEPT !.buffered = b]
    <2>1. conn[p][c] \in Cob_file
      BY DEF TypeOK
    <2>2. /\ g \in Cob_file /\ g.fd = conn[p][c].fd /\ g.mode = conn[p][c].mode
          /\ g.nonexistent = conn[p][c].nonexistent
      BY <2>1 DEF Cob_file
    <2> HIDE DEF g
    <2>3. SetConn(p, c, g)
      BY <1>1 DEF g
    <2> QED BY <2>2, <2>3, SetConnFacts
  <1>3. UNCHANGED <<op, lock, kept>>
    BY DEF CobWrite
  <1>4. TypeOK'
    <2>1. data' \in [Inodes -> SUBSET Procs]
      <3>1. data' = data \/ data' = [data EXCEPT ![conn[p][c].fd] = data[conn[p][c].fd] \cup {p}]
        BY DEF CobWrite
      <3>2. conn[p][c].fd \in Inodes
        BY DEF CobWrite, TypeOK, Cob_file
      <3>3. data \in [Inodes -> SUBSET Procs] /\ data[conn[p][c].fd] \cup {p} \in SUBSET Procs
        BY <3>2 DEF TypeOK
      <3> QED BY <3>1, <3>2, <3>3
    <2>2. status' \in [Procs -> Status]
      BY DEF CobWrite, TypeOK, Status
    <2>3. UNCHANGED <<dir, cache, exiting, errno, closedWithLock>>
      BY DEF CobWrite
    <2> QED BY <1>2, <1>3, <2>1, <2>2, <2>3 DEF TypeOK
  <1>5. /\ \A q \in Procs, d \in Conns : conn'[q][d].fd = conn[q][d].fd
              /\ conn'[q][d].mode = conn[q][d].mode
              /\ conn'[q][d].nonexistent = conn[q][d].nonexistent
    BY <1>2
  <1>6. OpOK'
    BY <1>3, <1>5 DEF OpOK
  <1>7. HandleOK'
    BY <1>3, <1>5 DEF HandleOK, Closed, Opening
  <1>8. LockHasHandle' /\ LockCovers' /\ Compatible'
    BY <1>3, <1>5, QuietLocks
  <1> QED BY <1>4, <1>6, <1>7, <1>8

\* COMMIT, ROLLBACK and UNLOCK.
LEMMA UnlockStep ==
  ASSUME IInv, NEW p \in Procs, NEW cs \in SUBSET Conns, Unlock(p, cs),
         UNCHANGED <<dir, data, conn, op, cache, exiting, errno, closedWithLock>>,
         status' \in [Procs -> Status]
  PROVE  IInv'
  <1> USE NoneAssumption DEF IInv
  <1> DEFINE released == {conn[p][c].fd : c \in {d \in cs : Unlocks(p, d)}}
  <1>1. /\ lock' \in [Inodes -> [Procs -> LockType]]
        /\ \A j \in Inodes, q \in Procs :
             lock'[j][q] = IF j \in released /\ q = p THEN "none" ELSE lock[j][q]
    <2>1. \A j \in Inodes : [lock[j] EXCEPT ![p] = "none"] \in [Procs -> LockType]
      BY DEF TypeOK, LockType
    <2>2. lock' = [i \in Inodes |->
                IF i \in released THEN [lock[i] EXCEPT ![p] = "none"] ELSE lock[i]]
      BY DEF Unlock
    <2> HIDE DEF released
    <2> QED BY <2>1, <2>2 DEF TypeOK
  <1>2. /\ kept' \in [Procs -> SUBSET Conns]
        /\ \A q \in Procs : kept'[q] \subseteq kept[q]
        /\ \A d \in kept'[p] : conn[p][d].fd \notin released
    <2>1. kept' = [kept EXCEPT ![p] = {c \in kept[p] : conn[p][c].fd \notin released}]
      BY DEF Unlock
    <2> HIDE DEF released
    <2> QED BY <2>1 DEF TypeOK
  <1> HIDE DEF released
  <1>3. TypeOK'
    BY <1>1, <1>2 DEF TypeOK
  <1>4. OpOK' /\ HandleOK'
    BY DEF OpOK, HandleOK, Closed, Opening
  <1>5. LockHasHandle'
    BY <1>1 DEF LockHasHandle
  <1>6. LockCovers'
    <2> SUFFICES ASSUME NEW q \in Procs, NEW d \in kept'[q]
                 PROVE  /\ conn[q][d].fd # NONE
                        /\ \/ lock'[conn[q][d].fd][q] = "WR"
                           \/ conn[q][d].mode = "INPUT" /\ lock'[conn[q][d].fd][q] = "RD"
      BY DEF LockCovers
    <2>1. d \in kept[q] /\ (q = p => conn[q][d].fd \notin released)
      BY <1>2
    <2>2. d \in Conns
      BY <2>1 DEF TypeOK
    <2>3. conn[q][d].fd # NONE /\ conn[q][d].fd \in Inodes
      BY <2>1, <2>2 DEF LockCovers, TypeOK, Cob_file
    <2>4. lock'[conn[q][d].fd][q] = lock[conn[q][d].fd][q]
      BY <1>1, <2>1, <2>3
    <2> QED BY <2>1, <2>3, <2>4 DEF LockCovers
  <1>7. Compatible'
    BY <1>1 DEF Compatible
  <1> QED BY <1>3, <1>4, <1>5, <1>6, <1>7

LEMMA CobCloseQuickStep ==
  ASSUME IInv, NEW p \in Procs, NEW c \in Conns, NEW opt \in CloseOpts,
         CobCloseQuick(p, c, opt)
  PROVE  IInv'
  <1> USE NoneAssumption DEF IInv
  <1>1. /\ conn[p][c] \in Cob_file /\ op[p].pc = "idle"
    BY DEF TypeOK, CobCloseQuick, Ready
  <1>2. /\ conn' \in [Procs -> [Conns -> Cob_file]]
        /\ conn'[p][c].fd = conn[p][c].fd /\ conn'[p][c].nonexistent = conn[p][c].nonexistent
        /\ \/ conn'[p][c].mode = conn[p][c].mode
           \/ conn'[p][c].mode = "CLOSED" /\ conn[p][c].nonexistent
        /\ \A q \in Procs, d \in Conns : q # p \/ d # c => conn'[q][d] = conn[q][d]
    <2> DEFINE m == IF ~Closed(conn[p][c]) /\ conn[p][c].nonexistent THEN "CLOSED" ELSE conn[p][c].mode
               g == [conn[p][c] EXCEPT !.openExcl = FALSE, !.mode = m]
    <2>1. m = conn[p][c].mode \/ (m = "CLOSED" /\ conn[p][c].nonexistent)
      OBVIOUS
    <2>2. SetConn(p, c, g)
      BY DEF CobCloseQuick
    <2> HIDE DEF m
    <2>3. /\ g \in Cob_file /\ g.fd = conn[p][c].fd /\ g.mode = m
          /\ g.nonexistent = conn[p][c].nonexistent
      BY <1>1, <2>1 DEF Cob_file
    <2> HIDE DEF g
    <2> QED BY <2>1, <2>2, <2>3, SetConnFacts
  <1>3. UNCHANGED <<op, lock, kept>>
    BY DEF CobCloseQuick
  <1>4. TypeOK'
    <2>1. status' \in [Procs -> Status]
      BY DEF CobCloseQuick, TypeOK, Status
    <2>2. UNCHANGED <<dir, data, cache, exiting, errno, closedWithLock>>
      BY DEF CobCloseQuick
    <2> QED BY <1>2, <1>3, <2>1, <2>2 DEF TypeOK
  <1>5. OpOK'
    <2> SUFFICES ASSUME NEW q \in Procs, op[q].pc # "idle"
                 PROVE  conn'[q] = conn[q]
      BY <1>3 DEF OpOK
    <2>1. q # p
      BY <1>1
    <2> QED BY <1>2, <2>1 DEF TypeOK
  <1>6. HandleOK'
    BY <1>2, <1>3 DEF HandleOK, Closed, Opening
  <1>7. \A q \in Procs, d \in Conns : conn[q][d].fd # NONE =>
          conn'[q][d].fd = conn[q][d].fd /\ conn'[q][d].mode = conn[q][d].mode
    BY <1>2 DEF HandleOK
  <1>8. LockHasHandle' /\ LockCovers' /\ Compatible'
    BY <1>3, <1>7, QuietLocks
  <1> QED BY <1>4, <1>5, <1>6, <1>8

\* CANCEL frees a cob_file that has no descriptor.
LEMMA CobCancelStep ==
  ASSUME IInv, NEW p \in Procs, NEW c \in Conns, CobCancel(p, c)
  PROVE  IInv'
  <1> USE NoneAssumption DEF IInv
  <1>1. /\ conn[p][c] \in Cob_file /\ op[p].pc = "idle"
        /\ Closed(conn[p][c]) \/ conn[p][c].nonexistent
    BY DEF TypeOK, CobCancel, Ready
  <1>2. conn[p][c].fd = NONE
    BY <1>1 DEF HandleOK
  <1>3. /\ NewFile \in Cob_file /\ NewFile.fd = NONE /\ NewFile.mode = "CLOSED"
        /\ NewFile.nonexistent = FALSE
    BY DEF NewFile, Cob_file
  <1>4. /\ conn' \in [Procs -> [Conns -> Cob_file]] /\ conn'[p][c] = NewFile
        /\ \A q \in Procs, d \in Conns : q # p \/ d # c => conn'[q][d] = conn[q][d]
    BY <1>3, SetConnFacts DEF CobCancel, CobFileFree
  <1>5. UNCHANGED <<op, lock, kept>>
    BY DEF CobCancel
  <1>6. TypeOK'
    <2>1. status' \in [Procs -> Status]
      BY DEF CobCancel, TypeOK, Status
    <2>2. cache' \in [Procs -> SUBSET Conns] /\ closedWithLock' \in [Procs -> SUBSET Conns]
      BY DEF CobCancel, CobFileFree, TypeOK
    <2>3. UNCHANGED <<dir, data, exiting, errno>>
      BY DEF CobCancel
    <2> QED BY <1>4, <1>5, <2>1, <2>2, <2>3 DEF TypeOK
  <1>7. OpOK'
    <2> SUFFICES ASSUME NEW q \in Procs, op[q].pc # "idle"
                 PROVE  conn'[q] = conn[q]
      BY <1>5 DEF OpOK
    <2>1. q # p
      BY <1>1
    <2> QED BY <1>4, <2>1 DEF TypeOK
  <1>8. HandleOK'
    BY <1>3, <1>4, <1>5 DEF HandleOK, Closed, Opening
  <1>9. \A q \in Procs, d \in Conns : conn[q][d].fd # NONE =>
          conn'[q][d].fd = conn[q][d].fd /\ conn'[q][d].mode = conn[q][d].mode
    BY <1>2, <1>4
  <1>10. LockHasHandle' /\ LockCovers' /\ Compatible'
    BY <1>5, <1>9, QuietLocks
  <1> QED BY <1>6, <1>7, <1>8, <1>10

LEMMA CobCloseStep ==
  ASSUME IInv, NEW p \in Procs, NEW c \in Conns, NEW opt \in CloseOpts,
         NEW remfil \in BOOLEAN, CobClose(p, c, opt, remfil)
  PROVE  IInv'
  <1> USE NoneAssumption DEF IInv
  <1> DEFINE i == conn[p][c].fd
  <1>1. /\ conn[p][c] \in Cob_file /\ op[p].pc = "idle"
        /\ ~Closed(conn[p][c]) /\ ~conn[p][c].nonexistent /\ DropLock(p, i)
    BY DEF TypeOK, CobClose
  <1>2. i \in Inodes
    BY <1>1 DEF HandleOK, Opening, Cob_file
  <1>3. /\ conn' \in [Procs -> [Conns -> Cob_file]]
        /\ conn'[p][c].fd = i /\ conn'[p][c].mode = conn[p][c].mode
        /\ conn'[p][c].nonexistent = conn[p][c].nonexistent
        /\ \A q \in Procs, d \in Conns : q # p \/ d # c => conn'[q][d] = conn[q][d]
    <2> DEFINE g == [conn[p][c] EXCEPT !.openExcl = FALSE]
    <2>1. /\ g \in Cob_file /\ g.fd = i /\ g.mode = conn[p][c].mode
          /\ g.nonexistent = conn[p][c].nonexistent
      BY <1>1 DEF Cob_file
    <2>2. SetConn(p, c, g)
      BY DEF CobClose
    <2> HIDE DEF g
    <2> QED BY <2>1, <2>2, SetConnFacts
  <1>4. /\ op' \in [Procs -> Op] /\ op'[p].pc = "close" /\ op'[p].c = c
        /\ \A q \in Procs : q # p => op'[q] = op[q]
    <2> DEFINE o == [Idle EXCEPT !.pc = "close", !.c = c, !.opt = opt]
    <2>1. o \in Op /\ o.pc = "close" /\ o.c = c
      BY IdleOp DEF Op
    <2>2. op' = [op EXCEPT ![p] = o]
      BY DEF CobClose
    <2> HIDE DEF o
    <2> QED BY <2>1, <2>2 DEF TypeOK
  <1> HIDE DEF i
  <1>5. /\ LockHasHandle' /\ LockCovers' /\ Compatible'
        /\ lock' \in [Inodes -> [Procs -> LockType]] /\ kept' \in [Procs -> SUBSET Conns]
    <2>1. \A q \in Procs, d \in Conns : conn'[q][d].fd = conn[q][d].fd
            /\ conn'[q][d].mode = conn[q][d].mode
      BY <1>3 DEF i
    <2> QED BY <1>1, <1>2, <2>1, DropLocks
  <1>6. TypeOK'
    <2>1. errno' \in [Procs -> Errno] /\ cache' \in [Procs -> SUBSET Conns]
      BY DEF CobClose, TypeOK, Errno
    <2>2. UNCHANGED <<dir, data, exiting, status, closedWithLock>>
      BY DEF CobClose
    <2> QED BY <1>3, <1>4, <1>5, <2>1, <2>2 DEF TypeOK
  <1>7. OpOK'
    BY <1>2, <1>3, <1>4 DEF OpOK
  <1>8. HandleOK'
    BY <1>1, <1>3, <1>4 DEF HandleOK, Closed, Opening, i
  <1> QED BY <1>5, <1>6, <1>7, <1>8

LEMMA CloseFdStep ==
  ASSUME IInv, NEW p \in Procs, CloseFd(p)
  PROVE  IInv'
  <1> USE NoneAssumption DEF IInv
  <1> DEFINE c == op[p].c
             i == conn[p][c].fd
  <1>1. /\ c \in Conns /\ op[p].pc = "close" /\ i \in Inodes /\ DropLock(p, i)
        /\ conn[p][c] \in Cob_file
    BY DEF CloseFd, OpOK, TypeOK
  <1>2. /\ conn' \in [Procs -> [Conns -> Cob_file]]
        /\ conn'[p][c].fd = NONE /\ Closed(conn'[p][c])
        /\ \A q \in Procs, d \in Conns : q # p \/ d # c => conn'[q][d] = conn[q][d]
    <2> DEFINE m == ModeAfterClose(op[p].opt)
               g == [conn[p][c] EXCEPT !.fd = NONE, !.buffered = FALSE, !.mode = m]
    <2>1. m \in {"CLOSED", "LOCKED"}
      BY DEF ModeAfterClose
    <2>2. SetConn(p, c, g)
      BY DEF CloseFd
    <2> HIDE DEF m, c
    <2>3. g \in Cob_file /\ g.fd = NONE /\ g.mode = m
      BY <1>1, <2>1 DEF Cob_file
    <2> HIDE DEF g
    <2> QED BY <1>1, <2>1, <2>2, <2>3, SetConnFacts DEF Closed
  <1>3. /\ op' \in [Procs -> Op] /\ op'[p].pc = "idle"
        /\ \A q \in Procs : q # p => op'[q] = op[q]
    BY IdleOp DEF CloseFd, TypeOK
  <1>4. /\ status' \in [Procs -> Status] /\ UNCHANGED <<dir, cache, exiting, errno>>
    BY DEF CloseFd, TypeOK, Status
  <1>5. data' \in [Inodes -> SUBSET Procs]
    <2>1. data' = data \/ data' = [data EXCEPT ![i] = data[i] \cup {p}]
      BY DEF CloseFd
    <2>2. data \in [Inodes -> SUBSET Procs] /\ data[i] \cup {p} \in SUBSET Procs
      BY <1>1 DEF TypeOK
    <2> HIDE DEF i
    <2> QED BY <2>1, <2>2
  <1>6. closedWithLock' \in [Procs -> SUBSET Conns]
    <2>1. \/ closedWithLock' = closedWithLock
          \/ closedWithLock' = [closedWithLock EXCEPT ![p] = closedWithLock[p] \cup {c}]
      BY DEF CloseFd
    <2> HIDE DEF c
    <2>2. closedWithLock[p] \cup {c} \in SUBSET Conns
      BY <1>1 DEF TypeOK
    <2> QED BY <2>1, <2>2 DEF TypeOK
  <1> HIDE DEF i, c
  <1>7. /\ LockHasHandle' /\ LockCovers' /\ Compatible'
        /\ lock' \in [Inodes -> [Procs -> LockType]] /\ kept' \in [Procs -> SUBSET Conns]
    <2>1. \A q \in Procs, d \in Conns : conn[q][d].fd # NONE /\ (q # p \/ conn[q][d].fd # i) =>
            conn'[q][d].fd = conn[q][d].fd /\ conn'[q][d].mode = conn[q][d].mode
      BY <1>2 DEF i
    <2> QED BY <1>1, <2>1, DropLocks
  <1>8. TypeOK'
    BY <1>2, <1>3, <1>4, <1>5, <1>6, <1>7 DEF TypeOK
  <1>9. OpOK'
    BY <1>2, <1>3 DEF OpOK
  <1>10. HandleOK'
    <2>1. \A d \in Conns : ~Opening(p, d) /\ ~Opening(p, d)'
      BY <1>1, <1>3 DEF Opening
    <2>2. \A q \in Procs, d \in Conns : q # p => Opening(q, d)' = Opening(q, d)
      BY <1>3 DEF Opening
    <2> QED BY <1>2, <2>1, <2>2 DEF HandleOK, Closed
  <1> QED BY <1>7, <1>8, <1>9, <1>10

\* The process ends, by itself or by a signal.
LEMMA GoneStep ==
  ASSUME IInv, NEW p \in Procs, Gone(p), UNCHANGED <<dir, data>>
  PROVE  IInv'
  <1> USE NoneAssumption DEF IInv
  <1>1. /\ conn' \in [Procs -> [Conns -> Cob_file]]
        /\ \A d \in Conns : conn'[p][d] = NewFile
        /\ \A q \in Procs : q # p => conn'[q] = conn[q]
    <2>1. NewFile \in Cob_file
      BY DEF NewFile, Cob_file
    <2>2. conn' = [conn EXCEPT ![p] = [d \in Conns |-> NewFile]]
      BY DEF Gone
    <2> QED BY <2>1, <2>2 DEF TypeOK
  <1>2. /\ op' \in [Procs -> Op] /\ op'[p].pc = "idle"
        /\ \A q \in Procs : q # p => op'[q] = op[q]
    BY IdleOp DEF Gone, TypeOK
  <1>3. /\ lock' \in [Inodes -> [Procs -> LockType]]
        /\ \A j \in Inodes, q \in Procs :
             lock'[j][q] = IF q = p THEN "none" ELSE lock[j][q]
    <2>1. \A j \in Inodes : [lock[j] EXCEPT ![p] = "none"] \in [Procs -> LockType]
      BY DEF TypeOK, LockType
    <2> QED BY <2>1 DEF Gone, TypeOK
  <1>4. /\ kept' \in [Procs -> SUBSET Conns] /\ kept'[p] = {}
        /\ \A q \in Procs : q # p => kept'[q] = kept[q]
    BY DEF Gone, TypeOK
  <1>5. TypeOK'
    <2>1. errno' \in [Procs -> Errno] /\ status' \in [Procs -> Status]
      BY DEF Gone, TypeOK, Errno, Status
    <2>2. /\ cache' \in [Procs -> SUBSET Conns] /\ closedWithLock' \in [Procs -> SUBSET Conns]
          /\ exiting' \subseteq Procs
      BY DEF Gone, TypeOK
    <2> QED BY <1>1, <1>2, <1>3, <1>4, <2>1, <2>2 DEF TypeOK
  <1>6. OpOK'
    BY <1>1, <1>2 DEF OpOK
  <1>7. HandleOK'
    BY <1>1, <1>2 DEF HandleOK, Closed, Opening, NewFile
  <1>8. LockHasHandle'
    BY <1>1, <1>3 DEF LockHasHandle
  <1>9. LockCovers'
    <2> SUFFICES ASSUME NEW q \in Procs, NEW d \in kept'[q]
                 PROVE  /\ conn'[q][d].fd # NONE
                        /\ \/ lock'[conn'[q][d].fd][q] = "WR"
                           \/ conn'[q][d].mode = "INPUT" /\ lock'[conn'[q][d].fd][q] = "RD"
      BY DEF LockCovers
    <2>1. q # p /\ d \in kept[q] /\ conn'[q] = conn[q]
      BY <1>1, <1>4
    <2>2. d \in Conns
      BY <2>1 DEF TypeOK
    <2>3. conn[q][d].fd # NONE /\ conn[q][d].fd \in Inodes
      BY <2>1, <2>2 DEF LockCovers, TypeOK, Cob_file
    <2> QED BY <1>3, <2>1, <2>3 DEF LockCovers
  <1>10. Compatible'
    BY <1>3 DEF Compatible
  <1> QED BY <1>5, <1>6, <1>7, <1>8, <1>9, <1>10

-----------------------------------------------------------------------------
LEMMA NextIInv == IInv /\ [Next]_vars => IInv'
  <1> SUFFICES ASSUME IInv, [Next]_vars PROVE IInv'
    OBVIOUS
  <1>1. CASE UNCHANGED vars
    BY <1>1, QuietStep DEF vars, IInv, TypeOK
  <1>2. ASSUME NEW p \in Procs, NEW c \in Conns, NEW mode \in OpenModes,
               NEW sharing \in Sharing, CobOpen(p, c, mode, sharing)
        PROVE  IInv'
    BY <1>2, CobOpenStep
  <1>3. ASSUME NEW p \in Procs, NEW c \in Conns,
               CobOpenRefused(p, c) \/ CobDeleteFile(p, c) \/ CobDeleteFileRefused(p, c)
        PROVE  IInv'
    BY <1>3, RefusalSteps
  <1>4. ASSUME NEW p \in Procs, NEW c \in Conns, CobUnlockFile(p, c)
        PROVE  IInv'
    <2>1. status' \in [Procs -> Status]
      BY <1>4 DEF CobUnlockFile, IInv, TypeOK, Status
    <2> QED BY <1>4, <2>1, UnlockStep DEF CobUnlockFile
  <1>5. ASSUME NEW p \in Procs, CobCommit(p)
        PROVE  IInv'
    <2>1. status' \in [Procs -> Status] /\ cache[p] \in SUBSET Conns
      BY <1>5 DEF CobCommit, IInv, TypeOK
    <2> QED BY <1>5, <2>1, UnlockStep DEF CobCommit
  <1>6. ASSUME NEW p \in Procs, NEW c \in Conns, NEW opt \in CloseOpts, NEW r \in BOOLEAN,
               CobCloseQuick(p, c, opt) \/ CobClose(p, c, opt, r) \/ CobCancel(p, c)
        PROVE  IInv'
    BY <1>6, CobCloseQuickStep, CobCloseStep, CobCancelStep
  <1>7. ASSUME NEW p \in Procs, NEW c \in Conns, CobWrite(p, c)
        PROVE  IInv'
    BY <1>7, CobWriteStep
  <1>8. ASSUME NEW p \in Procs, OpenStep(p) \/ CloseFd(p) \/ StopRun(p)
        PROVE  IInv'
    BY <1>8, OpenFileStep, OpenMissingStep, LockGrantedStep, LockRefusedStep, CloseFdStep,
       RefusalSteps DEF OpenStep
  <1>9. ASSUME NEW p \in Procs, ExitRun(p) \/ Killed(p)
        PROVE  IInv'
    BY <1>9, GoneStep DEF ExitRun, Killed
  <1>10. "NORMAL" \in CloseOpts
    BY DEF CloseOpts
  <1> QED BY <1>1, <1>2, <1>3, <1>4, <1>5, <1>6, <1>7, <1>8, <1>9, <1>10 DEF Next

\* The bookkeeping of handles and locks is an invariant.
THEOREM Inductive == Spec => []IInv
  <1>1. Init => IInv
    BY InitIInv
  <1>2. IInv /\ [Next]_vars => IInv'
    BY NextIInv
  <1> QED BY <1>1, <1>2, PTL DEF Spec

\* Every variable keeps its type in every behaviour of the OPEN/CLOSE protocol.
THEOREM TypeCorrect == Spec => []TypeOK
  <1>1. IInv => TypeOK
    BY DEF IInv
  <1> QED BY <1>1, Inductive, PTL

\* No path through cob_open, cob_close, cob_file_unlock or the end of a run unit
\* leaves an open cob_file without descriptor, a closed one with a descriptor, or
\* a lock without a descriptor.
THEOREM HandlesConsistent == Spec => [](HandleOK /\ LockHasHandle)
  <1>1. IInv => HandleOK /\ LockHasHandle
    BY DEF IInv
  <1> QED BY <1>1, Inductive, PTL

\* Run units whose connectors kept the locks that cob_file_open took share a file
\* only for INPUT.
THEOREM Exclusion == Spec => [](LockCovers /\ WriterExclusion)
  <1>1. IInv => LockCovers
    BY DEF IInv
  <1>2. ASSUME IInv PROVE WriterExclusion
    <2> SUFFICES ASSUME NEW p \in Procs, NEW q \in Procs, NEW c \in kept[p], NEW d \in kept[q],
                        p # q, conn[p][c].fd = conn[q][d].fd
                 PROVE  conn[p][c].mode = "INPUT" /\ conn[q][d].mode = "INPUT"
      BY DEF WriterExclusion
    <2>1. c \in Conns /\ d \in Conns
      BY <1>2 DEF IInv, TypeOK
    <2>2. conn[p][c].fd \in Inodes
      BY <1>2, <2>1 DEF IInv, LockCovers, TypeOK, Cob_file
    <2> QED BY <1>2, <2>2 DEF IInv, LockCovers, Compatible
  <1> QED BY <1>1, <1>2, Inductive, PTL

-----------------------------------------------------------------------------
(* What exclusive files keep.  The lock of a connector is lost through another *)
(* connector of the same process on the same inode only, so ExclusiveKeeps and *)
(* DataSafe rest on PathsApart: connectors with descriptors on one inode have  *)
(* the same path.                                                              *)

\* The connector has a descriptor on inode i, or is about to get it.
Holds(p, c, i) == conn[p][c].fd = i \/ (Opening(p, c) /\ op[p].fd = i)

\* An inode has one path at most, and who holds it came by that path, also after a
\* DELETE FILE has taken the path from it.
OnePath == \A m, n \in Paths : dir[m] = dir[n] /\ dir[m] # NONE => m = n
HeldByPath ==
  \A i \in Inodes, p \in Procs, c \in Conns : \A n \in Paths :
    Holds(p, c, i) /\ dir[n] = i => n = PathOf[c]
PathsApart ==
  \A i \in Inodes, p, q \in Procs, c, d \in Conns :
    Holds(p, c, i) /\ Holds(q, d, i) => PathOf[c] = PathOf[d]

Alone(c) == \A d \in Conns \ {c} : PathOf[d] # PathOf[c]
Closing(p, c) == op[p].pc = "close" /\ op[p].c = c

\* An exclusive file that is open and not being closed has kept its lock.
ExclusiveKept ==
  \A p \in Procs, c \in Conns :
    Exclusive(p, c) /\ conn[p][c].fd # NONE /\ Alone(c) /\ ~Closing(p, c) => c \in kept[p]

\* While a file is being closed it is not exclusive by its OPEN any more.
ClosingNotExcl == \A p \in Procs, c \in Conns : Closing(p, c) => ~conn[p][c].openExcl

KInv == OnePath /\ HeldByPath /\ PathsApart /\ ExclusiveKept /\ ClosingNotExcl

-----------------------------------------------------------------------------
(* Descriptors. *)

\* A step that gives no connector a new inode, and no path either.
Shrinks ==
  /\ \A i \in Inodes, p \in Procs, c \in Conns : Holds(p, c, i)' => Holds(p, c, i)
  /\ \A n \in Paths : dir'[n] = dir[n] \/ dir'[n] = NONE

LEMMA ShrinkingKeepsApart ==
  ASSUME Shrinks, OnePath, HeldByPath, PathsApart
  PROVE  OnePath' /\ HeldByPath' /\ PathsApart'
  <1> USE NoneAssumption, PathOfAssumption
  <1>1. OnePath'
    BY DEF Shrinks, OnePath
  <1>2. HeldByPath'
    <2> SUFFICES ASSUME NEW i \in Inodes, NEW p \in Procs, NEW c \in Conns, NEW n \in Paths,
                        Holds(p, c, i)', dir'[n] = i
                 PROVE  n = PathOf[c]
      BY DEF HeldByPath
    <2>1. Holds(p, c, i) /\ dir[n] = i
      BY DEF Shrinks
    <2> QED BY <2>1 DEF HeldByPath
  <1>3. PathsApart'
    <2> SUFFICES ASSUME NEW i \in Inodes, NEW p \in Procs, NEW q \in Procs, NEW c \in Conns, NEW d \in Conns,
                        Holds(p, c, i)', Holds(q, d, i)'
                 PROVE  PathOf[c] = PathOf[d]
      BY DEF PathsApart
    <2>1. Holds(p, c, i) /\ Holds(q, d, i)
      BY DEF Shrinks
    <2> QED BY <2>1 DEF PathsApart
  <1> QED BY <1>1, <1>2, <1>3

\* OPEN of an existing file takes the inode of its path, and of a new one an inode that
\* nobody has.
LEMMA OpenFileKeepsApart ==
  ASSUME IInv, OnePath, HeldByPath, PathsApart, NEW p \in Procs, NEW j \in Inodes, OpenFile(p, j)
  PROVE  OnePath' /\ HeldByPath' /\ PathsApart'
  <1> USE NoneAssumption, PathOfAssumption
  <1> DEFINE c == op[p].c
             n == PathOf[c]
  <1>1. c \in Conns /\ n \in Paths /\ op[p].pc = "open" /\ conn[p][c].fd = NONE
    BY DEF OpenFile, IInv, OpOK
  <1>2. /\ \A m \in Paths : m # n => dir'[m] = dir[m]
        /\ dir'[n] = j
        /\ dir[n] = NONE => FreeInode(j)
        /\ dir[n] # NONE => dir[n] = j
    BY <1>1 DEF OpenFile, IInv, TypeOK
  <1>3. \A q \in Procs, d \in Conns : conn'[q][d].fd = conn[q][d].fd
    <2> DEFINE g == [conn[p][c] EXCEPT !.mode = op[p].mode]
    <2>1. SetConn(p, c, g) /\ g \in Cob_file /\ g.fd = conn[p][c].fd
      <3>1. conn[p][c] \in Cob_file /\ op[p].mode \in OpenModes
        BY <1>1 DEF IInv, TypeOK, Op
      <3> QED BY <3>1 DEF OpenFile, Cob_file
    <2> HIDE DEF g, c, n
    <2>2. conn'[p][c].fd = conn[p][c].fd
      BY <1>1, <2>1, SetConnFacts DEF IInv
    <2>3. \A q \in Procs, d \in Conns : q # p \/ d # c => conn'[q][d] = conn[q][d]
      BY <1>1, <2>1, SetConnFacts DEF IInv
    <2> QED BY <2>2, <2>3
  <1>4. /\ op'[p].pc = "fcntl" /\ op'[p].c = c /\ op'[p].fd = j
        /\ \A q \in Procs : q # p => op'[q] = op[q]
    BY DEF OpenFile, IInv, TypeOK, Op
  <1> HIDE DEF c, n
  <1>5. \A i \in Inodes, q \in Procs, d \in Conns :
          Holds(q, d, i)' => Holds(q, d, i) \/ (q = p /\ d = c /\ i = j)
    BY <1>1, <1>3, <1>4 DEF Holds, Opening
  <1>6. dir[n] = NONE => /\ \A m \in Paths : dir[m] # j
                         /\ \A q \in Procs, d \in Conns : ~Holds(q, d, j)
    BY <1>2 DEF FreeInode, HasDescriptor, Holds, Opening
  <1>7. \A m \in Paths : dir'[m] = j => m = n
    BY <1>1, <1>2, <1>6 DEF OnePath
  <1>8. \A q \in Procs, d \in Conns : Holds(q, d, j) => PathOf[d] = n
    BY <1>1, <1>2, <1>6 DEF HeldByPath
  <1>9. OnePath'
    BY <1>2, <1>7 DEF OnePath
  <1>10. HeldByPath'
    <2> SUFFICES ASSUME NEW i \in Inodes, NEW q \in Procs, NEW d \in Conns, NEW m \in Paths,
                        Holds(q, d, i)', dir'[m] = i
                 PROVE  m = PathOf[d]
      BY DEF HeldByPath
    <2>1. CASE i = j
      <3>1. m = n
        BY <2>1, <1>7
      <3> QED BY <2>1, <3>1, <1>5, <1>8 DEF n
    <2>2. CASE i # j
      <3>1. dir[m] = i /\ Holds(q, d, i)
        BY <2>2, <1>2, <1>5
      <3> QED BY <3>1 DEF HeldByPath
    <2> QED BY <2>1, <2>2
  <1>11. PathsApart'
    <2> SUFFICES ASSUME NEW i \in Inodes, NEW q \in Procs, NEW r \in Procs, NEW d \in Conns, NEW e \in Conns,
                        Holds(q, d, i)', Holds(r, e, i)'
                 PROVE  PathOf[d] = PathOf[e]
      BY DEF PathsApart
    <2>1. CASE i = j
      BY <2>1, <1>5, <1>8 DEF n
    <2>2. CASE i # j
      BY <2>2, <1>5 DEF PathsApart
    <2> QED BY <2>1, <2>2
  <1> QED BY <1>9, <1>10, <1>11

-----------------------------------------------------------------------------
(* Locks.  A step is a step of one process p. *)

OthersStay(p) ==
  \A q \in Procs : q # p => /\ op'[q] = op[q] /\ kept'[q] = kept[q]
                            /\ \A d \in Conns : conn'[q][d] = conn[q][d]
OwnShrink(p) ==
  /\ \A i \in Inodes, d \in Conns : Holds(p, d, i)' => Holds(p, d, i)
  /\ \A n \in Paths : dir'[n] = dir[n] \/ dir'[n] = NONE
OwnKept(p) ==
  \A d \in Conns :
    /\ Exclusive(p, d)' /\ conn'[p][d].fd # NONE /\ Alone(d) /\ ~Closing(p, d)' => d \in kept'[p]
    /\ Closing(p, d)' => ~conn'[p][d].openExcl

LEMMA StepKeepsApart ==
  ASSUME KInv, NEW p \in Procs, OthersStay(p), OwnShrink(p)
  PROVE  OnePath' /\ HeldByPath' /\ PathsApart'
  <1>1. \A i \in Inodes, q \in Procs, d \in Conns : q # p => (Holds(q, d, i)' => Holds(q, d, i))
    BY DEF OthersStay, Holds, Opening
  <1>2. Shrinks
    BY <1>1 DEF Shrinks, OwnShrink
  <1> QED BY <1>2, ShrinkingKeepsApart DEF KInv

LEMMA StepKeepsKept ==
  ASSUME KInv, NEW p \in Procs, OthersStay(p), OwnKept(p)
  PROVE  ExclusiveKept' /\ ClosingNotExcl'
  <1>1. ASSUME NEW q \in Procs, NEW d \in Conns, q # p
        PROVE  /\ Exclusive(q, d)' /\ conn'[q][d].fd # NONE /\ Alone(d) /\ ~Closing(q, d)' => d \in kept'[q]
               /\ Closing(q, d)' => ~conn'[q][d].openExcl
    BY <1>1 DEF OthersStay, KInv, ExclusiveKept, ClosingNotExcl, Exclusive, Closing
  <1>2. ASSUME NEW d \in Conns
        PROVE  /\ Exclusive(p, d)' /\ conn'[p][d].fd # NONE /\ Alone(d) /\ ~Closing(p, d)' => d \in kept'[p]
               /\ Closing(p, d)' => ~conn'[p][d].openExcl
    BY DEF OwnKept
  <1>3. ExclusiveKept'
    BY <1>1, <1>2 DEF ExclusiveKept
  <1>4. ClosingNotExcl'
    BY <1>1, <1>2 DEF ClosingNotExcl
  <1> QED BY <1>3, <1>4

\* Another connector of the process has the inode: the connector is not alone on its path.
LEMMA NotAlone ==
  ASSUME KInv, NEW p \in Procs, NEW c \in Conns, NEW d \in Conns, c # d, NEW i \in Inodes,
         Holds(p, c, i), Holds(p, d, i)
  PROVE  ~Alone(d)
  BY DEF KInv, PathsApart, Alone

\* What SetConn, an assignment to op, and DropLock do, at each place.
LEMMA OpAt ==
  ASSUME TypeOK, NEW p \in Procs, NEW o, op' = [op EXCEPT ![p] = o]
  PROVE  op'[p] = o /\ \A q \in Procs : q # p => op'[q] = op[q]
  BY DEF TypeOK

LEMMA DropLockAt ==
  ASSUME TypeOK, NEW p \in Procs, NEW i \in Inodes, DropLock(p, i)
  PROVE  /\ \A q \in Procs : q # p => kept'[q] = kept[q]
         /\ \A d \in kept[p] : conn[p][d].fd # i => d \in kept'[p]
  BY DEF TypeOK, DropLock, KeptOn

LEMMA CobOpenKept ==
  ASSUME IInv, KInv, NEW p \in Procs, NEW c \in Conns, NEW mode \in OpenModes,
         NEW sharing \in Sharing, CobOpen(p, c, mode, sharing)
  PROVE  KInv'
  <1> USE NoneAssumption DEF IInv
  <1>1. PICK f \in Cob_file : SetConn(p, c, f) /\ f.fd = NONE
    <2>1. conn[p][c] \in Cob_file
      BY DEF TypeOK
    <2>2. [conn[p][c] EXCEPT !.nonexistent = FALSE, !.fd = NONE,
             !.openExcl = (sharing = "OPEN_EXCLUSIVE")] \in Cob_file
      BY <2>1 DEF Cob_file
    <2> QED BY <2>1, <2>2 DEF CobOpen, Cob_file
  <1>2. /\ conn'[p][c].fd = NONE
        /\ \A q \in Procs, d \in Conns : q # p \/ d # c => conn'[q][d] = conn[q][d]
    BY <1>1, SetConnFacts
  <1>3. /\ op[p].pc = "idle" /\ op'[p].pc \in {"idle", "open"}
        /\ \A q \in Procs : q # p => op'[q] = op[q]
    BY DEF CobOpen, TypeOK, Ready, Idle
  <1>4. kept' = kept /\ dir' = dir
    BY DEF CobOpen
  <1>5. OthersStay(p) /\ OwnShrink(p)
    BY <1>2, <1>3, <1>4 DEF OthersStay, OwnShrink, Holds, Opening
  <1>6. OwnKept(p)
    BY <1>2, <1>3, <1>4 DEF OwnKept, KInv, ExclusiveKept, Exclusive, Closing
  <1> QED BY <1>5, <1>6, StepKeepsApart, StepKeepsKept DEF KInv

LEMMA OpenFileKept ==
  ASSUME IInv, KInv, NEW p \in Procs, NEW j \in Inodes, OpenFile(p, j)
  PROVE  KInv'
  <1> USE NoneAssumption DEF IInv
  <1> DEFINE c == op[p].c
             g == [conn[p][c] EXCEPT !.mode = op[p].mode]
  <1>1. c \in Conns /\ op[p].pc = "open" /\ conn[p][c] \in Cob_file /\ op[p].mode \in OpenModes /\ conn[p][c].fd = NONE
    BY DEF OpenFile, OpOK, TypeOK, Op
  <1>2. g \in Cob_file /\ g.fd = NONE /\ SetConn(p, c, g)
    BY <1>1 DEF OpenFile, Cob_file
  <1>3. op'[p].pc = "fcntl" /\ \A q \in Procs : q # p => op'[q] = op[q]
    BY DEF OpenFile, TypeOK, Op
  <1> HIDE DEF c, g
  <1>4. /\ conn'[p][c].fd = NONE
        /\ \A q \in Procs, d \in Conns : q # p \/ d # c => conn'[q][d] = conn[q][d]
    BY <1>1, <1>2, SetConnFacts
  <1>5. kept' = kept
    BY DEF OpenFile
  <1>6. OthersStay(p)
    BY <1>3, <1>4, <1>5 DEF OthersStay
  <1>7. OwnKept(p)
    BY <1>1, <1>3, <1>4, <1>5 DEF OwnKept, KInv, ExclusiveKept, Exclusive, Closing
  <1> QED BY <1>6, <1>7, StepKeepsKept, OpenFileKeepsApart DEF KInv

LEMMA OpenEndsKept ==
  ASSUME IInv, KInv, NEW p \in Procs, OpenMissing(p) \/ OpenFails(p)
  PROVE  KInv'
  <1> USE NoneAssumption DEF IInv
  <1> DEFINE c == op[p].c
  <1>1. c \in Conns /\ op[p].pc = "open" /\ conn[p][c] \in Cob_file /\ op[p].mode \in OpenModes /\ conn[p][c].fd = NONE
    BY DEF OpenMissing, OpenFails, OpOK, TypeOK, Op
  <1>2. /\ conn'[p][c].fd = NONE
        /\ \A q \in Procs, d \in Conns : q # p \/ d # c => conn'[q][d] = conn[q][d]
    <2> DEFINE g == [conn[p][c] EXCEPT !.mode = op[p].mode, !.nonexistent = TRUE]
    <2>1. g \in Cob_file /\ g.fd = NONE
      BY <1>1 DEF Cob_file
    <2>2. conn' = conn \/ SetConn(p, c, g)
      BY DEF OpenMissing, OpenFails
    <2> HIDE DEF g, c
    <2> QED BY <1>1, <2>1, <2>2, SetConnFacts
  <1>3. op'[p].pc = "idle" /\ \A q \in Procs : q # p => op'[q] = op[q]
    BY IdleOp, OpAt DEF OpenMissing, OpenFails
  <1>4. kept' = kept /\ dir' = dir
    BY DEF OpenMissing, OpenFails
  <1> HIDE DEF c
  <1>5. OthersStay(p) /\ OwnShrink(p)
    BY <1>2, <1>3, <1>4 DEF OthersStay, OwnShrink, Holds, Opening
  <1>6. OwnKept(p)
    BY <1>1, <1>2, <1>3, <1>4 DEF OwnKept, KInv, ExclusiveKept, Exclusive, Closing
  <1> QED BY <1>5, <1>6, StepKeepsApart, StepKeepsKept DEF KInv

\* fcntl takes the lock from connectors on the same inode only.
LEMMA LockGrantedKept ==
  ASSUME IInv, KInv, NEW p \in Procs, LockGranted(p)
  PROVE  KInv'
  <1> USE NoneAssumption DEF IInv
  <1> DEFINE c == op[p].c
             i == op[p].fd
             g == [conn[p][c] EXCEPT !.fd = i, !.buffered = FALSE]
  <1>1. c \in Conns /\ i \in Inodes /\ op[p].pc = "fcntl" /\ conn[p][c] \in Cob_file /\ conn[p][c].fd = NONE
    BY DEF LockGranted, OpOK, TypeOK
  <1>2. g \in Cob_file /\ g.fd = i /\ SetConn(p, c, g)
    BY <1>1 DEF LockGranted, Cob_file
  <1>3. op'[p].pc = "idle" /\ \A q \in Procs : q # p => op'[q] = op[q]
    BY IdleOp, OpAt DEF LockGranted
  <1>4. /\ \A q \in Procs : q # p => kept'[q] = kept[q]
        /\ c \in kept'[p]
        /\ \A d \in kept[p] : conn[p][d].fd # i => d \in kept'[p]
    BY DEF LockGranted, KeptOn, TypeOK
  <1>5. dir' = dir
    BY DEF LockGranted
  <1>6. Holds(p, c, i)
    BY <1>1 DEF Holds, Opening
  <1> HIDE DEF c, i, g
  <1>7. /\ conn'[p][c].fd = i
        /\ \A q \in Procs, d \in Conns : q # p \/ d # c => conn'[q][d] = conn[q][d]
    BY <1>1, <1>2, SetConnFacts
  <1>8. OthersStay(p) /\ OwnShrink(p)
    BY <1>3, <1>4, <1>5, <1>6, <1>7 DEF OthersStay, OwnShrink, Holds, Opening
  <1>9. OwnKept(p)
    <2> SUFFICES ASSUME NEW d \in Conns, d # c, Exclusive(p, d)', conn'[p][d].fd # NONE, Alone(d)
                 PROVE  d \in kept'[p]
      BY <1>3, <1>4 DEF OwnKept, Closing
    <2>1. conn'[p][d] = conn[p][d] /\ ~Closing(p, d)
      BY <1>1, <1>7 DEF Closing
    <2>2. d \in kept[p]
      BY <2>1 DEF KInv, ExclusiveKept, Exclusive
    <2>3. conn[p][d].fd # i
      BY <1>1, <1>6, NotAlone DEF Holds
    <2> QED BY <1>4, <2>2, <2>3
  <1> QED BY <1>8, <1>9, StepKeepsApart, StepKeepsKept DEF KInv

LEMMA LockRefusedKept ==
  ASSUME IInv, KInv, NEW p \in Procs, LockRefused(p)
  PROVE  KInv'
  <1> USE NoneAssumption DEF IInv
  <1> DEFINE c == op[p].c
             i == op[p].fd
             g == [conn[p][c] EXCEPT !.mode = "CLOSED"]
  <1>1. c \in Conns /\ i \in Inodes /\ op[p].pc = "fcntl" /\ conn[p][c] \in Cob_file /\ conn[p][c].fd = NONE
    BY DEF LockRefused, OpOK, TypeOK
  <1>2. g \in Cob_file /\ g.fd = NONE /\ SetConn(p, c, g) /\ DropLock(p, i) /\ dir' = dir
    BY <1>1 DEF LockRefused, Cob_file
  <1>3. op'[p].pc = "idle" /\ \A q \in Procs : q # p => op'[q] = op[q]
    BY IdleOp, OpAt DEF LockRefused
  <1>4. Holds(p, c, i)
    BY <1>1 DEF Holds, Opening
  <1> HIDE DEF c, i, g
  <1>5. /\ conn'[p][c].fd = NONE
        /\ \A q \in Procs, d \in Conns : q # p \/ d # c => conn'[q][d] = conn[q][d]
    BY <1>1, <1>2, SetConnFacts
  <1>6. OthersStay(p) /\ OwnShrink(p)
    BY <1>1, <1>2, <1>3, <1>5, DropLockAt DEF OthersStay, OwnShrink, Holds, Opening
  <1>7. OwnKept(p)
    <2> SUFFICES ASSUME NEW d \in Conns, d # c, Exclusive(p, d)', conn'[p][d].fd # NONE, Alone(d)
                 PROVE  d \in kept'[p]
      BY <1>3, <1>5 DEF OwnKept, Closing
    <2>1. conn'[p][d] = conn[p][d] /\ ~Closing(p, d)
      BY <1>1, <1>5 DEF Closing
    <2>2. d \in kept[p]
      BY <2>1 DEF KInv, ExclusiveKept, Exclusive
    <2>3. conn[p][d].fd # i
      BY <1>1, <1>4, NotAlone DEF Holds
    <2> QED BY <1>1, <1>2, <2>2, <2>3, DropLockAt
  <1> QED BY <1>6, <1>7, StepKeepsApart, StepKeepsKept DEF KInv

\* Steps that change no descriptor, lock mode or kept lock, and make no call close.
LEMMA QuietKept ==
  ASSUME KInv, kept' = kept, op' = op,
         \A n \in Paths : dir'[n] = dir[n] \/ dir'[n] = NONE,
         \A q \in Procs, d \in Conns : conn'[q][d].fd = conn[q][d].fd /\ (conn'[q][d].openExcl => conn[q][d].openExcl)
  PROVE  KInv'
  <1>1. Shrinks
    BY DEF Shrinks, Holds, Opening
  <1>2. ExclusiveKept' /\ ClosingNotExcl'
    BY DEF KInv, ExclusiveKept, ClosingNotExcl, Exclusive, Closing
  <1> QED BY <1>1, <1>2, ShrinkingKeepsApart DEF KInv

LEMMA QuietActionsKept ==
  ASSUME IInv, KInv, NEW p \in Procs, NEW c \in Conns,
         CobOpenRefused(p, c) \/ CobDeleteFile(p, c) \/ CobDeleteFileRefused(p, c) \/ StopRun(p)
  PROVE  KInv'
  <1>1. kept' = kept /\ op' = op /\ conn' = conn
    BY DEF CobOpenRefused, CobDeleteFile, CobDeleteFileRefused, StopRun
  <1>2. \A n \in Paths : dir'[n] = dir[n] \/ dir'[n] = NONE
    BY DEF CobOpenRefused, CobDeleteFile, CobDeleteFileRefused, StopRun, IInv, TypeOK
  <1> QED BY <1>1, <1>2, QuietKept

LEMMA CobWriteKept ==
  ASSUME IInv, KInv, NEW p \in Procs, NEW c \in Conns, CobWrite(p, c)
  PROVE  KInv'
  <1> USE DEF IInv
  <1>1. PICK later \in BOOLEAN : SetConn(p, c, [conn[p][c] EXCEPT !.buffered = later])
    BY DEF CobWrite
  <1> DEFINE g == [conn[p][c] EXCEPT !.buffered = later]
  <1>2. conn[p][c] \in Cob_file
    BY DEF TypeOK
  <1>3. g \in Cob_file /\ g.fd = conn[p][c].fd /\ g.openExcl = conn[p][c].openExcl /\ SetConn(p, c, g)
    BY <1>1, <1>2 DEF Cob_file
  <1> HIDE DEF g
  <1>4. conn'[p][c] = g /\ \A q \in Procs, d \in Conns : q # p \/ d # c => conn'[q][d] = conn[q][d]
    BY <1>3, SetConnFacts
  <1>5. \A q \in Procs, d \in Conns : conn'[q][d].fd = conn[q][d].fd /\ conn'[q][d].openExcl = conn[q][d].openExcl
    BY <1>3, <1>4
  <1>6. kept' = kept /\ op' = op /\ dir' = dir
    BY DEF CobWrite
  <1> QED BY <1>5, <1>6, QuietKept

LEMMA CobCancelKept ==
  ASSUME IInv, KInv, NEW p \in Procs, NEW c \in Conns, CobCancel(p, c)
  PROVE  KInv'
  <1> USE NoneAssumption DEF IInv
  <1>1. conn[p][c].fd = NONE
    BY DEF CobCancel, HandleOK
  <1>2. NewFile \in Cob_file /\ NewFile.fd = NONE /\ NewFile.openExcl = FALSE
    BY DEF NewFile, Cob_file
  <1>3. /\ conn'[p][c] = NewFile
        /\ \A q \in Procs, d \in Conns : q # p \/ d # c => conn'[q][d] = conn[q][d]
    BY <1>2, SetConnFacts DEF CobCancel, CobFileFree
  <1>4. \A q \in Procs, d \in Conns : conn'[q][d].fd = conn[q][d].fd /\ (conn'[q][d].openExcl => conn[q][d].openExcl)
    BY <1>1, <1>2, <1>3
  <1>5. kept' = kept /\ op' = op /\ dir' = dir
    BY DEF CobCancel
  <1> QED BY <1>4, <1>5, QuietKept

LEMMA CobCloseQuickKept ==
  ASSUME IInv, KInv, NEW p \in Procs, NEW c \in Conns, NEW opt \in CloseOpts,
         CobCloseQuick(p, c, opt)
  PROVE  KInv'
  <1> USE DEF IInv
  <1>1. PICK g \in Cob_file : g.fd = conn[p][c].fd /\ ~g.openExcl /\ SetConn(p, c, g)
    <2>1. conn[p][c] \in Cob_file
      BY DEF TypeOK
    <2>2. PICK m : m \in OpenModes \cup {"CLOSED", "LOCKED"}
                   /\ SetConn(p, c, [conn[p][c] EXCEPT !.openExcl = FALSE, !.mode = m])
      BY <2>1 DEF CobCloseQuick, Cob_file
    <2>3. [conn[p][c] EXCEPT !.openExcl = FALSE, !.mode = m] \in Cob_file
      BY <2>1, <2>2 DEF Cob_file
    <2> QED BY <2>1, <2>2, <2>3 DEF Cob_file
  <1>2. conn'[p][c] = g /\ \A q \in Procs, d \in Conns : q # p \/ d # c => conn'[q][d] = conn[q][d]
    BY <1>1, SetConnFacts
  <1>3. \A q \in Procs, d \in Conns : conn'[q][d].fd = conn[q][d].fd /\ (conn'[q][d].openExcl => conn[q][d].openExcl)
    BY <1>1, <1>2
  <1>4. kept' = kept /\ op' = op /\ dir' = dir
    BY DEF CobCloseQuick
  <1> QED BY <1>3, <1>4, QuietKept

\* UNLOCK, COMMIT and ROLLBACK release the inodes of files that are not exclusive.
LEMMA UnlockKept ==
  ASSUME IInv, KInv, NEW p \in Procs, NEW cs \in SUBSET Conns, Unlock(p, cs),
         conn' = conn, op' = op, dir' = dir
  PROVE  KInv'
  <1> USE NoneAssumption DEF IInv
  <1>1. \A q \in Procs : q # p => kept'[q] = kept[q]
    BY DEF Unlock, TypeOK
  <1>2. OthersStay(p) /\ OwnShrink(p)
    BY <1>1 DEF OthersStay, OwnShrink, Holds, Opening
  <1>3. OwnKept(p)
    <2>1. ASSUME NEW d \in Conns, Exclusive(p, d), conn[p][d].fd # NONE, Alone(d), ~Closing(p, d)
          PROVE  d \in kept'[p]
      <3>1. d \in kept[p]
        BY <2>1 DEF KInv, ExclusiveKept
      <3>2. ASSUME NEW e \in cs, Unlocks(p, e), conn[p][e].fd = conn[p][d].fd
            PROVE  FALSE
        <4>1. e \in Conns /\ e # d
          BY <3>2, <2>1 DEF Unlocks
        <4>2. conn[p][d].fd \in Inodes
          BY <2>1 DEF TypeOK, Cob_file
        <4> QED BY <2>1, <3>2, <4>1, <4>2, NotAlone DEF Holds
      <3>3. conn[p][d].fd \notin {conn[p][e].fd : e \in {x \in cs : Unlocks(p, x)}}
        BY <3>2
      <3> QED BY <3>1, <3>3 DEF Unlock, TypeOK
    <2> QED BY <2>1 DEF OwnKept, KInv, ClosingNotExcl, Exclusive, Closing
  <1> QED BY <1>2, <1>3, StepKeepsApart, StepKeepsKept DEF KInv

LEMMA CobCloseKept ==
  ASSUME IInv, KInv, NEW p \in Procs, NEW c \in Conns, NEW opt \in CloseOpts, NEW r \in BOOLEAN,
         CobClose(p, c, opt, r)
  PROVE  KInv'
  <1> USE NoneAssumption DEF IInv
  <1> DEFINE i == conn[p][c].fd
             g == [conn[p][c] EXCEPT !.openExcl = FALSE]
  <1>1. i \in Inodes /\ conn[p][c] \in Cob_file /\ op[p].pc = "idle"
    BY DEF CobClose, HandleOK, Opening, TypeOK, Cob_file
  <1>2. g \in Cob_file /\ g.fd = i /\ ~g.openExcl /\ SetConn(p, c, g) /\ DropLock(p, i) /\ dir' = dir
    BY <1>1 DEF CobClose, Cob_file
  <1>3. op'[p].pc = "close" /\ op'[p].c = c /\ \A q \in Procs : q # p => op'[q] = op[q]
    BY DEF CobClose, TypeOK, Idle
  <1>4. Holds(p, c, i)
    BY DEF Holds
  <1> HIDE DEF i, g
  <1>5. /\ conn'[p][c].fd = i /\ ~conn'[p][c].openExcl
        /\ \A q \in Procs, d \in Conns : q # p \/ d # c => conn'[q][d] = conn[q][d]
    BY <1>2, SetConnFacts
  <1>6. OthersStay(p) /\ OwnShrink(p)
    BY <1>1, <1>2, <1>3, <1>4, <1>5, DropLockAt DEF OthersStay, OwnShrink, Holds, Opening
  <1>7. OwnKept(p)
    <2> SUFFICES ASSUME NEW d \in Conns, d # c, Exclusive(p, d)', conn'[p][d].fd # NONE, Alone(d)
                 PROVE  d \in kept'[p]
      BY <1>3, <1>5 DEF OwnKept, Closing
    <2>1. conn'[p][d] = conn[p][d] /\ ~Closing(p, d)
      BY <1>1, <1>5 DEF Closing
    <2>2. d \in kept[p]
      BY <2>1 DEF KInv, ExclusiveKept, Exclusive
    <2>3. conn[p][d].fd # i
      BY <1>1, <1>4, NotAlone DEF Holds
    <2> QED BY <1>1, <1>2, <2>2, <2>3, DropLockAt
  <1> QED BY <1>6, <1>7, StepKeepsApart, StepKeepsKept DEF KInv

LEMMA CloseFdKept ==
  ASSUME IInv, KInv, NEW p \in Procs, CloseFd(p)
  PROVE  KInv'
  <1> USE NoneAssumption DEF IInv
  <1> DEFINE c == op[p].c
             i == conn[p][c].fd
  <1>1. c \in Conns /\ i \in Inodes /\ op[p].pc = "close" /\ conn[p][c] \in Cob_file
    BY DEF CloseFd, OpOK, TypeOK
  <1>2. PICK g \in Cob_file : g.fd = NONE /\ SetConn(p, c, g)
    <2> DEFINE h == [conn[p][c] EXCEPT !.fd = NONE, !.buffered = FALSE, !.mode = ModeAfterClose(op[p].opt)]
    <2>1. h \in Cob_file /\ h.fd = NONE
      BY <1>1 DEF Cob_file, ModeAfterClose
    <2>2. SetConn(p, c, h)
      BY DEF CloseFd
    <2> QED BY <2>1, <2>2
  <1>3. DropLock(p, i) /\ dir' = dir
    BY DEF CloseFd
  <1>4. op'[p].pc = "idle" /\ \A q \in Procs : q # p => op'[q] = op[q]
    BY IdleOp, OpAt DEF CloseFd
  <1>5. Holds(p, c, i)
    BY DEF Holds
  <1> HIDE DEF c, i
  <1>6. /\ conn'[p][c].fd = NONE
        /\ \A q \in Procs, d \in Conns : q # p \/ d # c => conn'[q][d] = conn[q][d]
    BY <1>1, <1>2, SetConnFacts
  <1>7. OthersStay(p) /\ OwnShrink(p)
    BY <1>1, <1>3, <1>4, <1>6, DropLockAt DEF OthersStay, OwnShrink, Holds, Opening
  <1>8. OwnKept(p)
    <2> SUFFICES ASSUME NEW d \in Conns, d # c, Exclusive(p, d)', conn'[p][d].fd # NONE, Alone(d)
                 PROVE  d \in kept'[p]
      BY <1>4, <1>6 DEF OwnKept, Closing
    <2>1. conn'[p][d] = conn[p][d] /\ ~Closing(p, d)
      BY <1>6 DEF Closing, c
    <2>2. d \in kept[p]
      BY <2>1 DEF KInv, ExclusiveKept, Exclusive
    <2>3. conn[p][d].fd # i
      BY <1>1, <1>5, NotAlone DEF Holds
    <2> QED BY <1>1, <1>3, <2>2, <2>3, DropLockAt
  <1> QED BY <1>7, <1>8, StepKeepsApart, StepKeepsKept DEF KInv

LEMMA GoneKept ==
  ASSUME IInv, KInv, NEW p \in Procs, Gone(p), dir' = dir
  PROVE  KInv'
  <1> USE NoneAssumption DEF IInv
  <1>1. /\ \A d \in Conns : conn'[p][d] = NewFile
        /\ \A q \in Procs, d \in Conns : q # p => conn'[q][d] = conn[q][d]
        /\ \A q \in Procs : q # p => kept'[q] = kept[q]
    BY DEF Gone, TypeOK
  <1>2. op'[p].pc = "idle" /\ \A q \in Procs : q # p => op'[q] = op[q]
    BY IdleOp, OpAt DEF Gone
  <1>3. OthersStay(p) /\ OwnShrink(p) /\ OwnKept(p)
    BY <1>1, <1>2 DEF OthersStay, OwnShrink, OwnKept, Holds, Opening, Closing, NewFile
  <1> QED BY <1>3, StepKeepsApart, StepKeepsKept DEF KInv

LEMMA InitKInv == Init => KInv
  BY NoneAssumption DEF Init, KInv, OnePath, HeldByPath, PathsApart, ExclusiveKept, ClosingNotExcl,
     Holds, Opening, Closing, NewFile, Idle

LEMMA NextKInv == IInv /\ KInv /\ [Next]_vars => KInv'
  <1> SUFFICES ASSUME IInv, KInv, [Next]_vars PROVE KInv'
    OBVIOUS
  <1>1. CASE UNCHANGED vars
    BY <1>1, QuietKept DEF vars
  <1>2. ASSUME NEW p \in Procs, NEW c \in Conns,
               CobOpenRefused(p, c) \/ CobDeleteFile(p, c) \/ CobDeleteFileRefused(p, c) \/ CobWrite(p, c)
        PROVE  KInv'
    BY <1>2, QuietActionsKept, CobWriteKept
  <1>3. ASSUME NEW p \in Procs, NEW c \in Conns, NEW mode \in OpenModes, NEW sharing \in Sharing,
               CobOpen(p, c, mode, sharing)
        PROVE  KInv'
    BY <1>3, CobOpenKept
  <1>4. ASSUME NEW p \in Procs, NEW c \in Conns, CobUnlockFile(p, c)
        PROVE  KInv'
    BY <1>4, UnlockKept DEF CobUnlockFile
  <1>5. ASSUME NEW p \in Procs, CobCommit(p)
        PROVE  KInv'
    <2>1. cache[p] \in SUBSET Conns
      BY DEF IInv, TypeOK
    <2> QED BY <1>5, <2>1, UnlockKept DEF CobCommit
  <1>6. ASSUME NEW p \in Procs, NEW c \in Conns, NEW opt \in CloseOpts, NEW r \in BOOLEAN,
               CobCloseQuick(p, c, opt) \/ CobClose(p, c, opt, r) \/ CobCancel(p, c)
        PROVE  KInv'
    BY <1>6, CobCloseQuickKept, CobCloseKept, CobCancelKept
  <1>7. ASSUME NEW p \in Procs, OpenStep(p) \/ CloseFd(p)
        PROVE  KInv'
    BY <1>7, OpenFileKept, OpenEndsKept, LockGrantedKept, LockRefusedKept, CloseFdKept DEF OpenStep
  <1>8. ASSUME NEW p \in Procs, StopRun(p)
        PROVE  KInv'
    BY <1>8, QuietKept DEF StopRun
  <1>9. ASSUME NEW p \in Procs, ExitRun(p) \/ Killed(p)
        PROVE  KInv'
    BY <1>9, GoneKept DEF ExitRun, Killed
  <1>10. "NORMAL" \in CloseOpts
    BY DEF CloseOpts
  <1> QED BY <1>1, <1>2, <1>3, <1>4, <1>5, <1>6, <1>7, <1>8, <1>9, <1>10 DEF Next

\* An exclusive file that is alone on its path keeps the lock that OPEN took until its
\* CLOSE begins, whatever cob_commit, cob_rollback and cob_unlock_file do.
THEOREM KeptInductive == Spec => []KInv
  BY InitKInv, NextKInv, Inductive, PTL DEF Spec

\* The same for the files opened WITH LOCK.
THEOREM ExclusiveKeeps == Spec => []ExclusiveKeepsLock
  <1>1. KInv => ExclusiveKeepsLock
    BY DEF KInv, ExclusiveKept, ClosingNotExcl, ExclusiveKeepsLock, Exclusive, Alone
  <1> QED BY <1>1, KeptInductive, PTL

-----------------------------------------------------------------------------
(* The records. *)

\* Nothing waits in the buffer of a stream.
Unbuffered == \A p \in Procs, c \in Conns : conn[p][c].buffered = FALSE

LEMMA SetConnUnbuffered ==
  ASSUME TypeOK, Unbuffered, NEW p \in Procs, NEW c \in Conns, NEW g,
         conn' = conn \/ (SetConn(p, c, g) /\ g.buffered = FALSE)
  PROVE  Unbuffered'
  <1>1. CASE conn' = conn
    BY <1>1 DEF Unbuffered
  <1>2. CASE SetConn(p, c, g) /\ g.buffered = FALSE
    <2>1. conn'[p][c] = g /\ \A q \in Procs, d \in Conns : q # p \/ d # c => conn'[q][d] = conn[q][d]
      BY <1>2 DEF TypeOK, SetConn
    <2> QED BY <1>2, <2>1 DEF Unbuffered
  <1> QED BY <1>1, <1>2

LEMMA NextUnbuffered ==
  ASSUME LineSeq = {}, IInv, Unbuffered, [Next]_vars
  PROVE  Unbuffered'
  <1> USE DEF IInv
  <1>1. \A p \in Procs, c \in Conns : conn[p][c] \in Cob_file /\ conn[p][c].buffered = FALSE
    BY DEF TypeOK, Unbuffered
  <1>2. CASE UNCHANGED vars
    BY <1>2 DEF vars, Unbuffered
  <1>3. ASSUME NEW p \in Procs, NEW c \in Conns,
               CobOpenRefused(p, c) \/ CobDeleteFile(p, c) \/ CobDeleteFileRefused(p, c) \/ CobUnlockFile(p, c)
        PROVE  Unbuffered'
    BY <1>3 DEF Unbuffered, CobOpenRefused, CobDeleteFile, CobDeleteFileRefused, CobUnlockFile
  <1>4. ASSUME NEW p \in Procs, NEW c \in Conns, NEW mode \in OpenModes, NEW sharing \in Sharing,
               CobOpen(p, c, mode, sharing)
        PROVE  Unbuffered'
    <2> DEFINE g == [conn[p][c] EXCEPT !.nonexistent = FALSE, !.fd = NONE, !.openExcl = (sharing = "OPEN_EXCLUSIVE")]
    <2>1. g.buffered = FALSE /\ SetConn(p, c, g)
      BY <1>1, <1>4 DEF CobOpen, Cob_file
    <2> HIDE DEF g
    <2> QED BY <2>1, SetConnUnbuffered
  <1>5. ASSUME NEW p \in Procs, NEW c \in Conns, CobWrite(p, c)
        PROVE  Unbuffered'
    <2> DEFINE g == [conn[p][c] EXCEPT !.buffered = FALSE]
    <2>1. g.buffered = FALSE /\ SetConn(p, c, g)
      BY <1>1, <1>5 DEF CobWrite, Cob_file
    <2> HIDE DEF g
    <2> QED BY <2>1, SetConnUnbuffered
  <1>6. ASSUME NEW p \in Procs, NEW c \in Conns, NEW opt \in CloseOpts,
               CobCloseQuick(p, c, opt)
        PROVE  Unbuffered'
    <2>1. PICK m : SetConn(p, c, [conn[p][c] EXCEPT !.openExcl = FALSE, !.mode = m])
      BY <1>1, <1>6 DEF CobCloseQuick, Cob_file
    <2> DEFINE g == [conn[p][c] EXCEPT !.openExcl = FALSE, !.mode = m]
    <2>2. g.buffered = FALSE /\ SetConn(p, c, g)
      BY <1>1, <2>1 DEF Cob_file
    <2> HIDE DEF g
    <2> QED BY <2>2, SetConnUnbuffered
  <1>7. ASSUME NEW p \in Procs, NEW c \in Conns, NEW opt \in CloseOpts, NEW r \in BOOLEAN,
               CobClose(p, c, opt, r)
        PROVE  Unbuffered'
    <2> DEFINE g == [conn[p][c] EXCEPT !.openExcl = FALSE]
    <2>1. g.buffered = FALSE /\ SetConn(p, c, g)
      BY <1>1, <1>7 DEF CobClose, Cob_file
    <2> HIDE DEF g
    <2> QED BY <2>1, SetConnUnbuffered
  <1>8. ASSUME NEW p \in Procs, OpenStep(p) \/ CloseFd(p)
        PROVE  Unbuffered'
    <2>1. op[p].c \in Conns
      BY <1>8 DEF OpenStep, OpenFile, OpenMissing, OpenFails, LockGranted, LockRefused, CloseFd, OpOK
    <2>2. PICK c \in Conns : c = op[p].c
      BY <2>1
    <2>3. CASE \E i \in Inodes : OpenFile(p, i)
      <3> DEFINE g == [conn[p][c] EXCEPT !.mode = op[p].mode]
      <3>1. g.buffered = FALSE /\ SetConn(p, c, g)
        BY <1>1, <2>2, <2>3 DEF OpenFile, Cob_file
      <3> HIDE DEF g
      <3> QED BY <3>1, SetConnUnbuffered
    <2>4. CASE OpenMissing(p) \/ OpenFails(p)
      <3> DEFINE g == [conn[p][c] EXCEPT !.mode = op[p].mode, !.nonexistent = TRUE]
      <3>1. g.buffered = FALSE /\ (conn' = conn \/ SetConn(p, c, g))
        BY <1>1, <2>2, <2>4 DEF OpenMissing, OpenFails, Cob_file
      <3> HIDE DEF g
      <3> QED BY <3>1, SetConnUnbuffered
    <2>5. CASE LockGranted(p)
      <3> DEFINE g == [conn[p][c] EXCEPT !.fd = op[p].fd, !.buffered = FALSE]
      <3>1. g.buffered = FALSE /\ SetConn(p, c, g)
        BY <1>1, <2>2, <2>5 DEF LockGranted, Cob_file
      <3> HIDE DEF g
      <3> QED BY <3>1, SetConnUnbuffered
    <2>6. CASE LockRefused(p)
      <3> DEFINE g == [conn[p][c] EXCEPT !.mode = "CLOSED"]
      <3>1. g.buffered = FALSE /\ SetConn(p, c, g)
        BY <1>1, <2>2, <2>6 DEF LockRefused, Cob_file
      <3> HIDE DEF g
      <3> QED BY <3>1, SetConnUnbuffered
    <2>7. CASE CloseFd(p)
      <3> DEFINE g == [conn[p][c] EXCEPT !.fd = NONE, !.buffered = FALSE, !.mode = ModeAfterClose(op[p].opt)]
      <3>1. g.buffered = FALSE
        BY <1>1 DEF Cob_file
      <3>2. SetConn(p, c, g)
        BY <2>2, <2>7 DEF CloseFd
      <3> HIDE DEF g
      <3> QED BY <3>1, <3>2, SetConnUnbuffered
    <2> QED BY <1>8, <2>3, <2>4, <2>5, <2>6, <2>7 DEF OpenStep
  <1>9. ASSUME NEW p \in Procs, ExitRun(p) \/ Killed(p)
        PROVE  Unbuffered'
    <2>1. conn' = [conn EXCEPT ![p] = [d \in Conns |-> NewFile]]
      BY <1>9 DEF ExitRun, Killed, Gone
    <2>2. \A q \in Procs, d \in Conns : conn'[q][d] = conn[q][d] \/ conn'[q][d] = NewFile
      BY <2>1 DEF TypeOK
    <2> QED BY <2>2 DEF Unbuffered, NewFile
  <1>11. ASSUME NEW p \in Procs, CobCommit(p) \/ StopRun(p)
         PROVE  Unbuffered'
    BY <1>11 DEF Unbuffered, CobCommit, StopRun
  <1>12. ASSUME NEW p \in Procs, NEW c \in Conns, CobCancel(p, c)
         PROVE  Unbuffered'
    <2>1. NewFile.buffered = FALSE /\ SetConn(p, c, NewFile)
      BY <1>12 DEF CobCancel, CobFileFree, NewFile
    <2> QED BY <2>1, SetConnUnbuffered
  <1>10. "NORMAL" \in CloseOpts
    BY DEF CloseOpts
  <1> QED BY <1>2, <1>3, <1>4, <1>5, <1>6, <1>7, <1>8, <1>9, <1>10, <1>11, <1>12 DEF Next

\* Who changes the records of a file that an exclusively used connector has locked for
\* writing: its own run unit, or an OPEN OUTPUT that truncates.
LEMMA DataStep ==
  ASSUME LockModeExcl = Conns, \A c \in Conns : Alone(c),
         IInv, KInv, Unbuffered, WriterExclusion, Next,
         NEW p \in Procs, NEW c \in kept[p], conn[p][c].mode # "INPUT",
         NEW i, i = conn[p][c].fd, data'[i] # data[i]
  PROVE  \/ data'[i] = data[i] \cup {p}
         \/ data'[i] = {} /\ \E q \in Procs : op[q].pc = "open" /\ op[q].mode = "OUTPUT"
  <1> USE NoneAssumption DEF IInv
  <1>1. c \in Conns /\ i \in Inodes
    BY DEF TypeOK, LockCovers, Cob_file
  <1>2. ASSUME NEW q \in Procs, NEW d \in Conns, CobWrite(q, d)
        PROVE  data'[i] = data[i] \cup {p}
    <2>1. conn[q][d].fd = i /\ data'[i] = data[i] \cup {q}
      BY <1>1, <1>2 DEF CobWrite, TypeOK
    <2>2. op[q].pc = "idle" /\ conn[q][d].fd # NONE /\ Exclusive(q, d) /\ Alone(d)
      BY <1>2 DEF CobWrite, Ready, Exclusive
    <2>3. d \in kept[q]
      BY <2>2 DEF KInv, ExclusiveKept, Closing
    <2>4. q = p
      BY <2>1, <2>3 DEF WriterExclusion
    <2> QED BY <2>1, <2>4
  <1>3. ASSUME NEW q \in Procs, NEW j \in Inodes, OpenFile(q, j)
        PROVE  data'[i] = {} /\ op[q].pc = "open" /\ op[q].mode = "OUTPUT"
    <2>1. ~FreeInode(i)
      BY <1>1 DEF FreeInode, HasDescriptor
    <2>2. j = i /\ data'[i] = {}
      BY <1>1, <1>3 DEF OpenFile, TypeOK
    <2> QED BY <1>3, <2>1, <2>2 DEF OpenFile
  <1>4. ASSUME NEW q \in Procs, CloseFd(q)
        PROVE  FALSE
    <2>1. op[q].c \in Conns
      BY <1>4 DEF CloseFd, OpOK
    <2> QED BY <1>4, <2>1 DEF CloseFd, Unbuffered
  <1>5. ASSUME NEW q \in Procs, OpenStep(q) \/ CobCommit(q) \/ StopRun(q) \/ ExitRun(q) \/ Killed(q)
        PROVE  \E j \in Inodes : OpenFile(q, j)
    <2>1. OpenMissing(q) \/ OpenFails(q) \/ LockGranted(q) \/ LockRefused(q) => data' = data
      BY DEF OpenMissing, OpenFails, LockGranted, LockRefused
    <2>2. CobCommit(q) \/ StopRun(q) \/ ExitRun(q) \/ Killed(q) => data' = data
      BY DEF CobCommit, StopRun, ExitRun, Killed
    <2> QED BY <1>5, <2>1, <2>2 DEF OpenStep
  <1>6. ASSUME NEW q \in Procs, NEW d \in Conns,
               CobOpenRefused(q, d) \/ CobUnlockFile(q, d) \/ CobDeleteFile(q, d) \/ CobDeleteFileRefused(q, d)
        PROVE  FALSE
    BY <1>6 DEF CobOpenRefused, CobUnlockFile, CobDeleteFile, CobDeleteFileRefused
  <1>7. ASSUME NEW q \in Procs, NEW d \in Conns, NEW mode \in OpenModes, NEW sharing \in Sharing,
               CobOpen(q, d, mode, sharing)
        PROVE  FALSE
    BY <1>7 DEF CobOpen
  <1>8. ASSUME NEW q \in Procs, NEW d \in Conns, NEW opt \in CloseOpts, NEW r \in BOOLEAN,
               CobCloseQuick(q, d, opt) \/ CobClose(q, d, opt, r) \/ CobCancel(q, d)
        PROVE  FALSE
    BY <1>8 DEF CobCloseQuick, CobClose, CobCancel
  <1>9. "NORMAL" \in CloseOpts
    BY DEF CloseOpts
  <1> QED BY <1>2, <1>3, <1>4, <1>5, <1>6, <1>7, <1>8, <1>9 DEF Next

\* If every file is used exclusively, by one connector of each run unit and not through a
\* buffer, no other run unit's record gets into a file that is locked for writing.
THEOREM DataSafe ==
  ASSUME LineSeq = {}, LockModeExcl = Conns, \A c \in Conns : Alone(c)
  PROVE  Spec => DataBehindLock
  <1> DEFINE Safe == \A p \in Procs : \A c \in kept[p] :
       LET i == conn[p][c].fd IN
       (conn[p][c].mode # "INPUT" /\ data'[i] # data[i])
       => \/ data'[i] = data[i] \cup {p}
          \/ data'[i] = {} /\ \E q \in Procs : op[q].pc = "open" /\ op[q].mode = "OUTPUT"
  <1>1. Init => Unbuffered
    BY DEF Init, Unbuffered, NewFile
  <1>2. IInv /\ Unbuffered /\ [Next]_vars => Unbuffered'
    BY NextUnbuffered
  <1>3. Spec => []Unbuffered
    BY <1>1, <1>2, Inductive, PTL DEF Spec
  <1>4. IInv /\ KInv /\ Unbuffered /\ WriterExclusion /\ [Next]_vars => [Safe]_vars
    BY DataStep DEF vars
  <1>5. Spec => [][Safe]_vars
    BY <1>3, <1>4, Inductive, KeptInductive, Exclusion, PTL DEF Spec
  <1> QED BY <1>5 DEF DataBehindLock

-----------------------------------------------------------------------------
(* file_cache, and CLOSE WITH LOCK. *)

\* A connector is in file_cache from the beginning of its OPEN to its CLOSE, and stays
\* LOCKED once CLOSE WITH LOCK has closed it.
CachedAt(p, c) ==
  /\ ~Closed(conn[p][c]) => c \in cache[p] \/ Closing(p, c)
  /\ op[p].pc \in {"open", "fcntl"} /\ op[p].c = c => c \in cache[p]
  /\ c \in closedWithLock[p] => conn[p][c].mode = "LOCKED"
CInv == \A p \in Procs, c \in Conns : CachedAt(p, c)

LEMMA StepKeepsCached ==
  ASSUME CInv, NEW p \in Procs, NEW c \in Conns,
         \A q \in Procs : q # p => op'[q] = op[q] /\ cache'[q] = cache[q] /\ closedWithLock'[q] = closedWithLock[q],
         \A q \in Procs, d \in Conns : q # p \/ d # c => conn'[q][d] = conn[q][d],
         \A d \in Conns : d # c => /\ d \in cache[p] => d \in cache'[p]
                                   /\ d \in closedWithLock'[p] => d \in closedWithLock[p]
                                   /\ Closing(p, d) => Closing(p, d)'
                                   /\ op'[p].pc \in {"open", "fcntl"} => op'[p].c # d,
         CachedAt(p, c)'
  PROVE  CInv'
  <1>1. ASSUME NEW q \in Procs, NEW d \in Conns, q # p PROVE CachedAt(q, d)'
    BY <1>1 DEF CInv, CachedAt, Closing
  <1>2. ASSUME NEW d \in Conns, d # c PROVE CachedAt(p, d)'
    BY <1>2 DEF CInv, CachedAt, Closing
  <1> QED BY <1>1, <1>2 DEF CInv

LEMMA OpenCached ==
  ASSUME IInv, CInv, NEW p \in Procs, NEW c \in Conns,
         \/ \E mode \in OpenModes, sharing \in Sharing : CobOpen(p, c, mode, sharing)
         \/ op[p].c = c /\ OpenStep(p)
  PROVE  CInv'
  <1> USE DEF IInv
  <1>1. conn[p][c] \in Cob_file /\ op[p] \in Op /\ op[p].fd \in Inodes \cup {NONE}
    BY DEF TypeOK, Op
  <1>2. UNCHANGED closedWithLock
    BY DEF OpenStep, CobOpen, OpenFile, OpenMissing, OpenFails, LockGranted, LockRefused
  <1>3. CachedAt(p, c)
    BY DEF CInv
  <1>4. CASE \E mode \in OpenModes, sharing \in Sharing : CobOpen(p, c, mode, sharing)
    <2>1. PICK mode \in OpenModes, sharing \in Sharing : CobOpen(p, c, mode, sharing)
      BY <1>4
    <2> DEFINE g == [conn[p][c] EXCEPT !.nonexistent = FALSE, !.fd = NONE, !.openExcl = (sharing = "OPEN_EXCLUSIVE")]
    <2>2. g \in Cob_file /\ g.mode = "CLOSED" /\ conn[p][c].mode = "CLOSED" /\ SetConn(p, c, g)
      BY <1>1, <2>1 DEF CobOpen, Cob_file
    <2>3. /\ op[p].pc = "idle" /\ op'[p].pc \in {"idle", "open"} /\ (op'[p].pc = "open" => op'[p].c = c)
          /\ \A q \in Procs : q # p => op'[q] = op[q]
      <3> DEFINE missing == dir[PathOf[c]] = NONE
                 o == [Idle EXCEPT !.pc = "open", !.c = c, !.mode = mode, !.nx = missing]
      <3>2. op' = [op EXCEPT ![p] = Idle] \/ op' = [op EXCEPT ![p] = o]
        BY <2>1 DEF CobOpen
      <3>3. Idle.pc = "idle" /\ o.pc = "open" /\ o.c = c
        BY DEF Idle
      <3> HIDE DEF o
      <3>1. PICK x : op' = [op EXCEPT ![p] = x] /\ x.pc \in {"idle", "open"} /\ (x.pc = "open" => x.c = c)
        BY <3>2, <3>3
      <3> QED BY <2>1, <3>1, OpAt, ZenonT(60) DEF CobOpen, Ready
    <2>4. cache'[p] = cache[p] \cup {c} /\ \A q \in Procs : q # p => cache'[q] = cache[q]
      <3>1. cache' = [cache EXCEPT ![p] = cache[p] \cup {c}]
        BY <2>1 DEF CobOpen, CobCacheFile
      <3> QED BY <3>1 DEF TypeOK
    <2> HIDE DEF g
    <2>5. conn'[p][c] = g /\ \A q \in Procs, d \in Conns : q # p \/ d # c => conn'[q][d] = conn[q][d]
      BY <2>2, SetConnFacts
    <2>6. CachedAt(p, c)'
      BY <1>2, <1>3, <2>2, <2>3, <2>4, <2>5 DEF CachedAt, Closed
    <2> QED BY <1>2, <2>3, <2>4, <2>5, <2>6, StepKeepsCached DEF Closing
  <1>5. CASE op[p].c = c /\ OpenStep(p)
    <2>1. UNCHANGED cache
      BY <1>5 DEF OpenStep, OpenFile, OpenMissing, OpenFails, LockGranted, LockRefused
    <2>2. /\ op[p].pc \in {"open", "fcntl"} /\ c \in cache[p]
          /\ conn[p][c].mode \in OpenModes \cup {"CLOSED"}
      BY <1>1, <1>3, <1>5 DEF OpenStep, OpenFile, OpenMissing, OpenFails, LockGranted, LockRefused, CachedAt, OpOK, Op
    <2>3. /\ op'[p].pc = "idle" \/ (op'[p].pc = "fcntl" /\ op'[p].c = c)
          /\ \A q \in Procs : q # p => op'[q] = op[q]
      <3>1. CASE \E i \in Inodes : OpenFile(p, i)
        BY <1>1, <1>5, <3>1 DEF OpenFile, TypeOK, Op
      <3>2. CASE ~\E i \in Inodes : OpenFile(p, i)
        <4>1. op' = [op EXCEPT ![p] = Idle]
          BY <1>5, <3>2 DEF OpenStep, OpenMissing, OpenFails, LockGranted, LockRefused
        <4> QED BY <4>1, OpAt, IdleOp
      <3> QED BY <3>1, <3>2
    <2>4. PICK g \in Cob_file : (conn' = conn /\ g = conn[p][c]) \/ SetConn(p, c, g)
      <3>1. op[p].mode \in OpenModes
        BY <1>1 DEF Op
      <3>2. CASE \E i \in Inodes : OpenFile(p, i)
        <4> DEFINE g == [conn[p][c] EXCEPT !.mode = op[p].mode]
        <4>1. g \in Cob_file /\ SetConn(p, c, g)
          BY <1>1, <1>5, <3>1, <3>2 DEF OpenFile, Cob_file
        <4> QED BY <4>1
      <3>3. CASE OpenMissing(p) \/ OpenFails(p)
        <4> DEFINE g == [conn[p][c] EXCEPT !.mode = op[p].mode, !.nonexistent = TRUE]
        <4>1. g \in Cob_file
          BY <1>1, <3>1 DEF Cob_file
        <4>2. conn' = conn \/ SetConn(p, c, g)
          BY <1>5, <3>3 DEF OpenMissing, OpenFails
        <4> HIDE DEF g
        <4> QED BY <1>1, <4>1, <4>2
      <3>4. CASE LockGranted(p)
        <4> DEFINE g == [conn[p][c] EXCEPT !.fd = op[p].fd, !.buffered = FALSE]
        <4>1. g \in Cob_file /\ SetConn(p, c, g)
          BY <1>1, <1>5, <3>4 DEF LockGranted, Cob_file
        <4> QED BY <4>1
      <3>5. CASE LockRefused(p)
        <4> DEFINE g == [conn[p][c] EXCEPT !.mode = "CLOSED"]
        <4>1. g \in Cob_file /\ SetConn(p, c, g)
          BY <1>1, <1>5, <3>5 DEF LockRefused, Cob_file
        <4> QED BY <4>1
      <3> QED BY <1>5, <3>2, <3>3, <3>4, <3>5 DEF OpenStep
    <2>5. conn'[p][c] = g /\ \A q \in Procs, d \in Conns : q # p \/ d # c => conn'[q][d] = conn[q][d]
      BY <2>4, SetConnFacts
    <2>6. c \notin closedWithLock[p]
      <3>1. conn[p][c].mode # "LOCKED"
        BY <2>2 DEF OpenModes
      <3> QED BY <1>3, <3>1 DEF CachedAt
    <2>7. CachedAt(p, c)'
      BY <1>2, <2>1, <2>2, <2>5, <2>6 DEF CachedAt
    <2> QED BY <1>2, <2>1, <2>2, <2>3, <2>5, <2>7, StepKeepsCached DEF Closing
  <1> QED BY <1>4, <1>5

LEMMA CloseCached ==
  ASSUME IInv, CInv, NEW p \in Procs, NEW c \in Conns,
         \/ \E opt \in CloseOpts : CobCloseQuick(p, c, opt) \/ CobClose(p, c, opt, FALSE)
         \/ CobCancel(p, c) \/ CobClose(p, c, "NORMAL", TRUE)
         \/ CobWrite(p, c)
         \/ op[p].c = c /\ CloseFd(p)
  PROVE  CInv'
  <1> USE DEF IInv
  <1>1. conn[p][c] \in Cob_file /\ op[p] \in Op
    BY DEF TypeOK
  <1>2. CachedAt(p, c)
    BY DEF CInv
  <1>3. CASE CobWrite(p, c)
    <2>1. PICK later \in BOOLEAN : SetConn(p, c, [conn[p][c] EXCEPT !.buffered = later])
      BY <1>3 DEF CobWrite
    <2> DEFINE g == [conn[p][c] EXCEPT !.buffered = later]
    <2>2. g \in Cob_file /\ g.mode = conn[p][c].mode /\ SetConn(p, c, g)
      BY <1>1, <2>1 DEF Cob_file
    <2> HIDE DEF g
    <2>3. conn'[p][c] = g /\ \A q \in Procs, d \in Conns : q # p \/ d # c => conn'[q][d] = conn[q][d]
      BY <2>2, SetConnFacts
    <2>4. UNCHANGED <<op, cache, closedWithLock>> /\ op[p].pc = "idle"
      BY <1>3 DEF CobWrite, Ready
    <2>5. CachedAt(p, c)'
      BY <1>2, <2>2, <2>3, <2>4 DEF CachedAt, Closed, Closing
    <2> QED BY <2>3, <2>4, <2>5, StepKeepsCached DEF Closing
  <1>4. ASSUME NEW opt \in CloseOpts, CobCloseQuick(p, c, opt)
        PROVE  CInv'
    <2> DEFINE g == [conn[p][c] EXCEPT !.openExcl = FALSE,
                       !.mode = IF ~Closed(conn[p][c]) /\ conn[p][c].nonexistent THEN "CLOSED" ELSE @]
    <2>1. /\ g \in Cob_file /\ SetConn(p, c, g)
          /\ g.mode = IF ~Closed(conn[p][c]) /\ conn[p][c].nonexistent THEN "CLOSED" ELSE conn[p][c].mode
      BY <1>1, <1>4 DEF CobCloseQuick, Cob_file
    <2> HIDE DEF g
    <2>2. conn'[p][c] = g /\ \A q \in Procs, d \in Conns : q # p \/ d # c => conn'[q][d] = conn[q][d]
      BY <2>1, SetConnFacts
    <2>3. UNCHANGED <<op, cache, closedWithLock>> /\ op[p].pc = "idle"
      BY <1>4 DEF CobCloseQuick, Ready
    <2>4. CachedAt(p, c)'
      <3>1. ~Closed(conn'[p][c]) => c \in cache'[p] \/ Closing(p, c)'
        BY <1>2, <2>1, <2>2, <2>3 DEF CachedAt, Closing, Closed
      <3>2. c \in closedWithLock'[p] => conn'[p][c].mode = "LOCKED"
        BY <1>2, <2>1, <2>2, <2>3 DEF CachedAt, Closed
      <3> QED BY <2>3, <3>1, <3>2 DEF CachedAt
    <2> QED BY <2>2, <2>3, <2>4, StepKeepsCached DEF Closing
  <1>8. CASE CobCancel(p, c)
    <2>1. NewFile \in Cob_file /\ Closed(NewFile)
      BY NoneAssumption DEF NewFile, Cob_file, Closed
    <2>2. conn'[p][c] = NewFile /\ \A q \in Procs, d \in Conns : q # p \/ d # c => conn'[q][d] = conn[q][d]
      BY <1>8, <2>1, SetConnFacts DEF CobCancel, CobFileFree
    <2>3. op' = op /\ op[p].pc = "idle"
      BY <1>8 DEF CobCancel, Ready
    <2>4. /\ \A q \in Procs : q # p => cache'[q] = cache[q] /\ closedWithLock'[q] = closedWithLock[q]
          /\ \A d \in Conns : d # c => (d \in cache[p] => d \in cache'[p]) /\ (d \in closedWithLock'[p] => d \in closedWithLock[p])
          /\ c \notin closedWithLock'[p]
      BY <1>8 DEF CobCancel, CobFileFree, TypeOK
    <2>5. CachedAt(p, c)'
      BY <2>1, <2>2, <2>3, <2>4 DEF CachedAt
    <2> QED BY <2>2, <2>3, <2>4, <2>5, StepKeepsCached DEF Closing
  <1>5. ASSUME NEW opt \in CloseOpts, NEW r \in BOOLEAN, CobClose(p, c, opt, r)
        PROVE  CInv'
    <2> DEFINE g == [conn[p][c] EXCEPT !.openExcl = FALSE]
    <2>1. /\ g \in Cob_file /\ SetConn(p, c, g)
          /\ g.mode = conn[p][c].mode /\ g.mode # "LOCKED"
      BY <1>1, <1>5 DEF CobClose, Cob_file, Closed
    <2> HIDE DEF g
    <2>2. conn'[p][c] = g /\ \A q \in Procs, d \in Conns : q # p \/ d # c => conn'[q][d] = conn[q][d]
      BY <2>1, SetConnFacts
    <2>3. /\ op[p].pc = "idle" /\ op'[p].pc = "close" /\ op'[p].c = c
          /\ \A q \in Procs : q # p => op'[q] = op[q]
      BY <1>5 DEF CobClose, TypeOK, Idle
    <2>4. /\ \A q \in Procs : q # p => cache'[q] = cache[q]
          /\ \A d \in Conns : d # c => (d \in cache[p] => d \in cache'[p])
          /\ closedWithLock' = closedWithLock
      BY <1>5 DEF CobClose, TypeOK
    <2>5. CachedAt(p, c)'
      BY <1>2, <2>1, <2>2, <2>3, <2>4 DEF CachedAt, Closing
    <2> QED BY <2>2, <2>3, <2>4, <2>5, StepKeepsCached DEF Closing
  <1>6. CASE op[p].c = c /\ CloseFd(p)
    <2> DEFINE g == [conn[p][c] EXCEPT !.fd = NONE, !.buffered = FALSE, !.mode = ModeAfterClose(op[p].opt)]
    <2>1. /\ g \in Cob_file /\ SetConn(p, c, g)
          /\ g.mode = ModeAfterClose(op[p].opt)
      BY <1>1, <1>6, NoneAssumption DEF CloseFd, Cob_file, ModeAfterClose
    <2> HIDE DEF g
    <2>2. conn'[p][c] = g /\ \A q \in Procs, d \in Conns : q # p \/ d # c => conn'[q][d] = conn[q][d]
      BY <2>1, SetConnFacts
    <2>3. op[p].pc = "close" /\ op'[p].pc = "idle" /\ \A q \in Procs : q # p => op'[q] = op[q]
      BY <1>6, OpAt, IdleOp DEF CloseFd
    <2>4. /\ cache' = cache
          /\ \A q \in Procs : q # p => closedWithLock'[q] = closedWithLock[q]
          /\ \A d \in Conns : d # c => (d \in closedWithLock'[p] => d \in closedWithLock[p])
          /\ op[p].opt = "LOCK" \/ closedWithLock' = closedWithLock
      BY <1>6 DEF CloseFd, TypeOK
    <2>5. conn[p][c].mode \notin {"CLOSED", "LOCKED"}
      <3>1. conn[p][c].fd \in Inodes
        BY <1>6, <2>3 DEF OpOK
      <3> QED BY <3>1, NoneAssumption DEF HandleOK, Closed
    <2>6. CachedAt(p, c)'
      <3>1. g.mode = "LOCKED" \/ (g.mode = "CLOSED" /\ op[p].opt # "LOCK")
        BY <2>1 DEF ModeAfterClose
      <3> QED BY <1>2, <2>1, <2>2, <2>3, <2>4, <2>5, <3>1 DEF CachedAt, Closed
    <2> QED BY <1>6, <2>2, <2>3, <2>4, <2>6, StepKeepsCached DEF Closing
  <1>7. "NORMAL" \in CloseOpts /\ TRUE \in BOOLEAN /\ FALSE \in BOOLEAN
    BY DEF CloseOpts
  <1> QED BY <1>3, <1>4, <1>5, <1>6, <1>7, <1>8

LEMMA NextCached == IInv /\ CInv /\ [Next]_vars => CInv'
  <1> SUFFICES ASSUME IInv, CInv, [Next]_vars PROVE CInv'
    OBVIOUS
  <1>1. ASSUME UNCHANGED <<conn, op, cache, closedWithLock>> PROVE CInv'
    BY <1>1 DEF CInv, CachedAt, Closing
  <1>2. CASE UNCHANGED vars
    BY <1>1, <1>2 DEF vars
  <1>3. ASSUME NEW p \in Procs, NEW c \in Conns,
               CobOpenRefused(p, c) \/ CobDeleteFile(p, c) \/ CobDeleteFileRefused(p, c) \/ CobUnlockFile(p, c)
        PROVE  CInv'
    BY <1>1, <1>3 DEF CobOpenRefused, CobDeleteFile, CobDeleteFileRefused, CobUnlockFile
  <1>4. ASSUME NEW p \in Procs, CobCommit(p) \/ StopRun(p)
        PROVE  CInv'
    BY <1>1, <1>4 DEF CobCommit, StopRun
  <1>5. ASSUME NEW p \in Procs, NEW c \in Conns,
               \/ \E mode \in OpenModes, sharing \in Sharing : CobOpen(p, c, mode, sharing)
               \/ CobWrite(p, c)
               \/ \E opt \in CloseOpts : CobCloseQuick(p, c, opt) \/ CobClose(p, c, opt, FALSE)
               \/ CobCancel(p, c) \/ CobClose(p, c, "NORMAL", TRUE)
        PROVE  CInv'
    BY <1>5, OpenCached, CloseCached
  <1>6. ASSUME NEW p \in Procs, OpenStep(p) \/ CloseFd(p)
        PROVE  CInv'
    <2>1. op[p].c \in Conns
      BY <1>6 DEF OpenStep, OpenFile, OpenMissing, OpenFails, LockGranted, LockRefused, CloseFd, IInv, OpOK
    <2> QED BY <1>6, <2>1, OpenCached, CloseCached
  <1>7. ASSUME NEW p \in Procs, ExitRun(p) \/ Killed(p)
        PROVE  CInv'
    <2>1. Gone(p)
      BY <1>7 DEF ExitRun, Killed
    <2>2. /\ \A d \in Conns : conn'[p][d] = NewFile
          /\ \A q \in Procs, d \in Conns : q # p => conn'[q][d] = conn[q][d]
          /\ closedWithLock'[p] = {}
          /\ \A q \in Procs : q # p => cache'[q] = cache[q] /\ closedWithLock'[q] = closedWithLock[q]
      BY <2>1 DEF Gone, IInv, TypeOK
    <2>3. op'[p].pc = "idle" /\ \A q \in Procs : q # p => op'[q] = op[q]
      BY <2>1, IdleOp, OpAt DEF Gone, IInv
    <2> QED BY <2>2, <2>3 DEF CInv, CachedAt, Closing, Closed, NewFile
  <1> QED BY <1>2, <1>3, <1>4, <1>5, <1>6, <1>7 DEF Next

\* COMMIT, ROLLBACK and the end of the run unit find every open file in file_cache.
THEOREM OpenCachedAlways == Spec => []OpenIsCached
  <1>1. Init => CInv
    BY DEF Init, CInv, CachedAt, Closed, NewFile, Idle
  <1>2. CInv => OpenIsCached
    BY DEF CInv, CachedAt, OpenIsCached, Closing
  <1> QED BY <1>1, <1>2, NextCached, Inductive, PTL DEF Spec

\* A cob_file that CLOSE WITH LOCK has closed is not opened again until a CANCEL of its
\* program frees it or the run unit ends: every way through cob_open, cob_close and
\* cob_file_close leaves open_mode at COB_OPEN_LOCKED.
THEOREM LockedStays == Spec => []CloseWithLockIsFinal
  <1>1. Init => CInv
    BY DEF Init, CInv, CachedAt, Closed, NewFile, Idle
  <1>2. IInv /\ CInv => CloseWithLockIsFinal
    BY DEF CInv, CachedAt, CloseWithLockIsFinal, IInv, TypeOK
  <1> QED BY <1>1, <1>2, NextCached, Inductive, PTL DEF Spec
=============================================================================
