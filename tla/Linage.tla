------------------------------- MODULE Linage -------------------------------
(***************************************************************************)
(* LINAGE files of libcob/fileio.c: logical pages on a stream of lines.    *)
(* The LINAGE phrase may name data items, which the program changes at any *)
(* time and which are looked at when a page begins; LINAGE-COUNTER, and the *)
(* global eop_status, through which a WRITE tells save_status of an end of *)
(* page, shared by all files (check_eop_status is set by each WRITE before  *)
(* it is read, so it is a parameter here).                                  *)
(***************************************************************************)
EXTENDS Integers

CONSTANTS
  Files,       \* LINAGE files of the run unit
  Geometries,  \* what the data items of a LINAGE phrase may hold
  Advances     \* BEFORE or AFTER: so many lines, or PAGE

PAGE == -1

Layout == [lines : Int, foot : Int, top : Int, bot : Int]

ASSUME GeometriesAssumption == Geometries \subseteq Layout
\* ADVANCING 0 LINES is left out: a record moves the paper by a line all the same.
ASSUME AdvancesAssumption ==
  Advances \subseteq [phrase : {"BEFORE", "AFTER"}, lines : {PAGE} \cup (Nat \ {0})]

VARIABLES
  items,      \* file -> the data items; foot = 0: no FOOTING
  lin,        \* file -> lin_lines, lin_foot, lin_top, lin_bot
  ctr,        \* file -> LINAGE-COUNTER
  mode,       \* file -> open_mode
  stream,     \* file -> f->file is not NULL
  needsTop,   \* file -> flag_needs_top
  eop,        \* eop_status is set
  status,     \* file status of the last statement
  exception,  \* cob_exception_code behind it: "none", "EOP" or "error"
  alive,      \* no write to a NULL stream yet
  at,         \* file -> lines the paper has moved since its page began, for the properties
  printed,    \* where the last WRITE printed, for the properties
  due         \* the last statement is a WRITE with END-OF-PAGE that ends a page, for the properties

page == <<lin, ctr, needsTop>>
paper == <<at, printed>>
vars == <<items, lin, ctr, mode, stream, needsTop, eop, status, exception, alive, at, printed, due>>

Nowhere == [line |-> 0, top |-> 0, lines |-> 0, turned |-> FALSE]

-----------------------------------------------------------------------------
\* save_status: a pending end of page goes with the first statement that succeeds.
SaveStatus(s, pending) ==
  /\ status' = s
  /\ IF s = "00" THEN exception' = (IF pending THEN "EOP" ELSE "none") /\ eop' = FALSE
     ELSE exception' = "error" /\ eop' = pending

\* file_linage_check: the items are taken over one by one up to the first that is not
\* possible.
LinesBad(g) == g.lines < 1
FootBad(g) == g.foot # 0 /\ ~(g.foot \in 1..g.lines)
FileLinageCheck(g, old) ==
  [ok |-> ~(LinesBad(g) \/ FootBad(g) \/ g.top < 0 \/ g.bot < 0),
   lin |-> [lines |-> g.lines,
            foot  |-> IF LinesBad(g) THEN old.foot ELSE g.foot,
            top   |-> IF LinesBad(g) \/ FootBad(g) THEN old.top ELSE g.top,
            bot   |-> IF LinesBad(g) \/ FootBad(g) \/ g.top < 0 THEN old.bot ELSE g.bot]]

CobOpen(f) ==
  /\ alive /\ mode[f] = "CLOSED"
  /\ LET check == FileLinageCheck(items[f], lin[f]) IN
     /\ lin' = [lin EXCEPT ![f] = check.lin]
     /\ ctr' = [ctr EXCEPT ![f] = IF check.ok THEN 1 ELSE 0]
     /\ needsTop' = [needsTop EXCEPT ![f] = @ \/ check.ok]
     /\ stream' = [stream EXCEPT ![f] = check.ok]
     /\ SaveStatus(IF check.ok THEN "00" ELSE "57", eop)
  /\ mode' = [mode EXCEPT ![f] = "OUTPUT"]
  /\ at' = [at EXCEPT ![f] = 0]
  /\ due' = FALSE /\ printed' = Nowhere
  /\ UNCHANGED <<items, alive>>

CobClose(f) ==
  /\ alive
  /\ SaveStatus(IF mode[f] = "CLOSED" THEN "42" ELSE "00", eop)
  /\ mode' = [mode EXCEPT ![f] = "CLOSED"]
  /\ stream' = [stream EXCEPT ![f] = FALSE]
  /\ due' = FALSE /\ printed' = Nowhere
  /\ UNCHANGED <<items, page, alive, at>>

-----------------------------------------------------------------------------
(* WRITE.  The operators give the state of the page, p, and of the paper     *)
(* after each of its steps.                                                  *)

\* A page in the middle of a WRITE: what cob_linage_write_opt changes.
PageOf(f) == [lin |-> lin[f], ctr |-> ctr[f], at |-> at[f], eop |-> eop, ok |-> TRUE, turned |-> FALSE]

\* The top margin of the first page.
TopOfFirst(f, p) == [p EXCEPT !.at = @ + (IF needsTop[f] /\ p.lin.top > 0 THEN p.lin.top ELSE 0)]

Down(p, n) == [p EXCEPT !.at = @ + n]
SizeOf(l) == l.top + l.lines + l.bot

\* mutant: the bottom margin is forgotten
TurnNoBottom(f, p) ==
  LET check == FileLinageCheck(items[f], p.lin)
      feed == p.lin.lines - p.ctr
      at0 == p.at + feed - SizeOf(p.lin)
  IN [p EXCEPT !.lin = check.lin, !.ok = check.ok, !.turned = TRUE,
               !.ctr = IF check.ok THEN 1 ELSE 0,
               !.at = at0 + (IF check.ok THEN check.lin.top ELSE 0)]

\* The rest of the page by its counter, the bottom margin, and the top of the next page with
\* the items as they are now.
Turn(f, p) ==
  LET check == FileLinageCheck(items[f], p.lin)
      feed == p.lin.lines - p.ctr
      at0 == p.at + feed + p.lin.bot - SizeOf(p.lin)
  IN [p EXCEPT !.lin = check.lin, !.ok = check.ok, !.turned = TRUE,
               !.ctr = IF check.ok THEN 1 ELSE 0,
               !.at = at0 + (IF check.ok THEN check.lin.top ELSE 0)]

\* mutant: the footing begins one line too late
EndsPageLate(l, line, asked) == asked /\ ((l.foot # 0 /\ line > l.foot) \/ line > l.lines)

EndsPage(l, line, asked) == asked /\ ((l.foot # 0 /\ line >= l.foot) \/ line > l.lines)

\* mutant: a line more on the page
OverflowsLate(l, line) == line > l.lines + 1

Overflows(l, line) == line > l.lines

\* The lines of ADVANCING without the one the record itself takes.
AlsoDown(n) == IF n > 1 THEN n - 1 ELSE 0

CobLinageWriteOpt(f, n, asked, p) ==
  IF p.ctr = 0 THEN [p EXCEPT !.ok = FALSE]
  ELSE IF n = PAGE THEN Turn(f, p)
  ELSE LET line == p.ctr + n
           q == [p EXCEPT !.eop = @ \/ EndsPage(p.lin, line, asked)]
       IN IF Overflows(p.lin, line) THEN Turn(f, q)
          ELSE Down([q EXCEPT !.ctr = line], AlsoDown(n))

\* lineseq_write: all of it, with the record on one line.
LineseqWrite(f, adv, asked) ==
  LET p0 == TopOfFirst(f, PageOf(f))
      p1 == IF adv.phrase = "AFTER" THEN CobLinageWriteOpt(f, adv.lines, asked, p0) ELSE p0
      p2 == IF p1.ok THEN Down(p1, 1) ELSE p1
      p3 == IF adv.phrase = "BEFORE" THEN CobLinageWriteOpt(f, adv.lines, asked, p2) ELSE p2
  IN [before |-> p1, after |-> p3]

\* A NULL stream is written to.
Faults(f, adv) == ~stream[f] /\ (adv.phrase = "BEFORE" \/ (needsTop[f] /\ lin[f].top > 0))

\* By the paper: the line of the body it stands at, and whether n more end the page.
BodyLine(f) == IF needsTop[f] THEN 1 ELSE at[f] - lin[f].top + 1
IsDue(f, adv, asked) ==
  /\ asked /\ adv.lines # PAGE
  /\ \/ lin[f].foot # 0 /\ BodyLine(f) + adv.lines >= lin[f].foot
     \/ BodyLine(f) + adv.lines > lin[f].lines

CobWrite(f, adv, asked) ==
  /\ alive /\ mode[f] = "OUTPUT"
  /\ UNCHANGED <<items, mode, stream>>
  /\ \/ /\ Faults(f, adv)
        /\ alive' = FALSE
        /\ UNCHANGED <<page, eop, status, exception, paper, due>>
     \/ /\ ~Faults(f, adv)
        /\ LET w == LineseqWrite(f, adv, asked)  p == w.after IN
           /\ lin' = [lin EXCEPT ![f] = p.lin]
           /\ ctr' = [ctr EXCEPT ![f] = p.ctr]
           /\ at' = [at EXCEPT ![f] = IF ctr[f] = 0 THEN @ ELSE p.at]    \* lost behind a page that cannot be
           /\ SaveStatus(IF p.ok THEN "00" ELSE "57", p.eop)
           /\ printed' = IF w.before.ok
                         THEN [line |-> w.before.at, top |-> w.before.lin.top, lines |-> w.before.lin.lines,
                               turned |-> w.before.turned]
                         ELSE Nowhere
        /\ needsTop' = [needsTop EXCEPT ![f] = FALSE]
        /\ due' = IsDue(f, adv, asked)
        /\ UNCHANGED alive

CobWriteDenied(f) ==
  /\ alive /\ mode[f] = "CLOSED"
  /\ SaveStatus("48", eop)
  /\ due' = FALSE /\ printed' = Nowhere
  /\ UNCHANGED <<items, page, mode, stream, alive, at>>

\* The program assigns to the data items.
MoveItems(f, g) ==
  /\ alive /\ g # items[f]
  /\ items' = [items EXCEPT ![f] = g]
  /\ UNCHANGED <<page, mode, stream, eop, status, exception, alive, paper, due>>

Init ==
  /\ items \in [Files -> Geometries]
  /\ lin = [f \in Files |-> [lines |-> 0, foot |-> 0, top |-> 0, bot |-> 0]]
  /\ ctr = [f \in Files |-> 0]
  /\ mode = [f \in Files |-> "CLOSED"]
  /\ stream = [f \in Files |-> FALSE]
  /\ needsTop = [f \in Files |-> FALSE]
  /\ eop = FALSE /\ status = "00" /\ exception = "none" /\ alive = TRUE
  /\ at = [f \in Files |-> 0] /\ printed = Nowhere /\ due = FALSE

Next == \E f \in Files :
  \/ CobOpen(f) \/ CobClose(f) \/ CobWriteDenied(f)
  \/ \E adv \in Advances, asked \in BOOLEAN : CobWrite(f, adv, asked)
  \/ \E g \in Geometries : MoveItems(f, g)

Spec == Init /\ [][Next]_vars

-----------------------------------------------------------------------------
Statuses == {"00", "42", "48", "57"}

TypeOK ==
  /\ items \in [Files -> Geometries]
  /\ lin \in [Files -> Layout] /\ ctr \in [Files -> Nat] /\ at \in [Files -> Int]
  /\ mode \in [Files -> {"CLOSED", "OUTPUT"}]
  /\ stream \in [Files -> BOOLEAN] /\ needsTop \in [Files -> BOOLEAN]
  /\ eop \in BOOLEAN /\ alive \in BOOLEAN /\ due \in BOOLEAN
  /\ status \in Statuses /\ exception \in {"none", "EOP", "error"}
  /\ printed \in [line : Int, top : Int, lines : Int, turned : BOOLEAN]
  /\ \A f \in Files : ctr[f] > 0 => lin[f].top >= 0 /\ lin[f].bot >= 0 /\ ctr[f] <= lin[f].lines

\* LINAGE-COUNTER is the line of the body the paper stands at, whatever pages of whatever
\* sizes have gone by.
CounterIsLine ==
  \A f \in Files : stream[f] /\ ctr[f] > 0 =>
    IF needsTop[f] THEN at[f] = 0 /\ ctr[f] = 1 ELSE at[f] = lin[f].top + ctr[f] - 1

\* A record is printed within the body of its page; only the record that turns the page by
\* AFTER stands on the line above the body.
RecordsInBody ==
  [][ \/ printed' = Nowhere \/ status' # "00"
      \/ printed'.line \in printed'.top..printed'.top + printed'.lines - 1
      \/ printed'.turned /\ printed'.line = printed'.top - 1 ]_vars

\* While no end of page is left over from a WRITE that failed, a statement raises EC-I-O-EOP
\* exactly when it is a WRITE with END-OF-PAGE that brings the paper into the footing, or over
\* the end of the body, and succeeds.
EopWhenDue ==
  [][ alive' /\ items' = items /\ ~eop => (exception' = "EOP" <=> due' /\ status' = "00") ]_vars
=============================================================================
