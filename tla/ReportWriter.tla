---------------------------- MODULE ReportWriter ----------------------------
(***************************************************************************)
(* The report writer (libcob/reportio.c): INITIATE, GENERATE, TERMINATE and *)
(* SUPPRESS for one report, and the loop that cobc generates around them    *)
(* (codegen.c): where a group has a USE BEFORE REPORTING procedure,         *)
(* cob_report_generate returns to the program, which runs it and calls      *)
(* cob_report_generate again with the number of the procedure, to go on     *)
(* from that group.                                                         *)
(*                                                                          *)
(* A group is an 01 entry without LINE over 02 entries with LINE.  Controls *)
(* are numbered from the minor one, as rc->sequence is and as the list      *)
(* r->controls is linked.  One step of GENERATE is the work for one group.  *)
(***************************************************************************)
EXTENDS Integers, SequencesExt

CONSTANTS
  K,           \* the number of controls
  Values,      \* of a control field
  Lines, Heading, FirstDetail, LastDetail, \* PAGE LIMIT, HEADING, FIRST DETAIL, LAST DETAIL
  Reports,     \* the reports that may be described
  MaxGenerates \* bound: GENERATEs from INITIATE to TERMINATE

Controls == 1..K
FINAL == K + 1
Levels == 1..FINAL

RH == <<"RH", 0>>      \* REPORT HEADING, the first group of the report
RF == <<"RF", 0>>
PH == <<"PH", 0>>
PF == <<"PF", 0>>
DETAIL == <<"DE", 0>>
CH(c) == <<"CH", c>>
CF(c) == <<"CF", c>>   \* CF(FINAL): CONTROL FOOTING FINAL
Groups == {RH, RF, PH, PF, DETAIL} \cup {CH(c) : c \in Controls} \cup {CF(c) : c \in Levels}

\* LINE and NEXT GROUP clauses; NONE is an entry without one.
NONE == [kind |-> "NONE", n |-> 0]
LineClauses == {NONE} \cup [kind : {"LINE", "PLUS"}, n : Nat]
NextClauses == LineClauses \cup [kind : {"PAGE"}, n : Nat]

\* lines: the groups there are, with the clauses of their lines; next: their NEXT GROUP clauses;
\* decl: those that have a USE BEFORE REPORTING procedure; rolling: a footing sums the counter
\* of the next lower footing (SUM of a sum counter) and not the item of the DETAIL.
ASSUME ReportsAssumption ==
  \A r \in Reports : /\ DOMAIN r.lines \subseteq Groups /\ DETAIL \in DOMAIN r.lines
                     /\ \A g \in DOMAIN r.lines : r.lines[g] \in Seq(LineClauses)
                     /\ r.next \in [DOMAIN r.lines -> NextClauses]
                     /\ r.decl \subseteq DOMAIN r.lines /\ r.rolling \in BOOLEAN
ASSUME PageAssumption == Heading \in 1..FirstDetail /\ LastDetail \in FirstDetail..Lines

VARIABLES
  d,         \* the description of the report
  p,         \* where the report stands on its page: the counters and flags of cob_report
  initiated, \* initiate_done
  f,         \* the control fields of the program
  val,       \* rc->val: what they were at the last control break
  sf,        \* rc->sf
  change,    \* the controls with data_change
  suppress,  \* the controls with rc->suppress
  ctr,       \* the sum counters of the footings
  lastUse,   \* last_use
  pc,        \* the statement under way and how far it is
  n,         \* GENERATEs since INITIATE, for the bound
  given,     \* for the properties: the control fields in this GENERATE
  before,    \*   and in the one before it
  count,     \* for the properties: level -> details since its last break
  quiet,     \* for the properties: the groups that a procedure has suppressed
  again      \* for the properties: a GENERATE has started over behind its DETAIL's procedure

control == <<f, val, sf, change>>
ghosts == <<given, before, count, quiet, again>>
vars == <<d, p, initiated, f, val, sf, change, suppress, ctr, lastUse, pc, n, given, before, count, quiet, again>>

Has(g) == g \in DOMAIN d.lines
Declared(g) == g \in d.decl

-----------------------------------------------------------------------------
(* The page.  q is the state of the report as it goes through a step.  For the *)
(* properties, out has the lines that the step prints, open says that the page  *)
(* has been headed and not footed, pages counts the headings, and clash says    *)
(* that a page ended in the first GENERATE or while a NEXT GROUP was pending.   *)

DownTo(q, line) == [q EXCEPT !.line = IF @ < line THEN line ELSE @]
Pending(q) == ~q.justSet /\ (q.nextLine \/ q.nextPlus \/ q.nextPage)
Logs(q, g) == [q EXCEPT !.out = Append(@, [group |-> g, line |-> q.line, page |-> q.page, open |-> q.open, pages |-> q.pages])]
Fresh(q) == [q EXCEPT !.out = <<>>]
PAGE == <<"PAGE", 0>>  \* a page begins

\* set_next_info
SetNext(q, next) ==
  CASE next.kind = "LINE" -> [q EXCEPT !.nextValue = next.n, !.nextLine = TRUE, !.nextPlus = FALSE, !.justSet = TRUE]
    [] next.kind = "PLUS" -> [q EXCEPT !.nextValue = next.n, !.nextLine = FALSE, !.nextPlus = TRUE, !.justSet = TRUE]
    [] next.kind = "PAGE" -> [q EXCEPT !.nextValue = next.n, !.nextLine = FALSE, !.nextPage = TRUE, !.justSet = TRUE]
    [] OTHER -> q

RECURSIVE ReportLine(_, _, _, _)

\* The 01 entry of a group, then its lines (report_line_and, report_line_type).
Entries(g) == <<<<NONE, d.next[g]>>>> \o [i \in DOMAIN d.lines[g] |-> <<d.lines[g][i], NONE>>]
PrintGroup(q, g) == IF Has(g) THEN FoldLeft(LAMBDA r, e : ReportLine(r, g, e[1], e[2]), q, Entries(g)) ELSE q

EndOfPage(q) ==
  [q EXCEPT !.line = IF @ < Lines THEN Lines ELSE 1, !.incr = @ /\ q.line >= Lines,
            !.firstDetail = TRUE, !.inFoot = FALSE, !.open = FALSE]
DoPageFooting(q) ==
  IF q.inFoot THEN q
  ELSE EndOfPage(PrintGroup([q EXCEPT !.inFoot = TRUE, !.clash = @ \/ Pending(q) \/ q.firstGenerate], PF))

\* do_page_heading goes to the end of the page first.
TopOfPage(q) == IF ~q.firstGenerate /\ q.line <= Lines /\ q.line > Heading THEN [q EXCEPT !.line = 1] ELSE q
BeginPage(q) ==
  [TopOfPage(q) EXCEPT !.inHead = TRUE, !.page = IF q.firstGenerate THEN @ ELSE @ + 1, !.firstDetail = FALSE,
                       !.pages = @ + 1, !.open = TRUE]
Headed(q) == [q EXCEPT !.inHead = FALSE]
DoPageHeading(q) ==
  IF q.inHead THEN q
  ELSE Headed(DownTo(PrintGroup(DownTo(BeginPage(Logs(q, PAGE)), Heading), PH), FirstDetail))

Turn(q) == DoPageHeading(DoPageFooting(q))

\* Mutant: one line too many.
OverflowLate(q) == q.line > LastDetail + 1 /\ ~q.inReportFooting /\ ~q.inFoot

\* "Page overflow": LAST DETAIL is passed, and no footing is on its way.
Overflow(q) == q.line > LastDetail /\ ~q.inReportFooting /\ ~q.inFoot

\* LINE n when the page has gone past it.
NextPage(q) == IF q.inReportFooting THEN [q EXCEPT !.page = @ + 1, !.line = 1] ELSE DoPageHeading(q)
Eject(q) == [NextPage(DoPageFooting(q)) EXCEPT !.firstDetail = FALSE]

\* report_line before it prints: a pending NEXT GROUP comes first, and instead of the LINE of
\* this one if it is absolute or the NEXT GROUP goes to a page.
NextGroupPlus(q) == [q EXCEPT !.line = @ + q.nextValue, !.nextPlus = FALSE]
NextGroupLine(q) == DownTo(IF q.line > q.nextValue THEN Turn([q EXCEPT !.nextLine = FALSE]) ELSE [q EXCEPT !.nextLine = FALSE],
                           q.nextValue)
NextGroup(q) == IF q.nextPlus THEN NextGroupPlus(q) ELSE NextGroupLine(q)
LinePlus(q, l) ==
  IF l.kind = "PLUS" /\ l.n > 1 /\ q.line # FirstDetail THEN [q EXCEPT !.line = @ + l.n - 1] ELSE q
Positioned(q, l) ==
  CASE Pending(q) /\ (q.nextPlus \/ q.nextLine) -> LinePlus(NextGroup(q), l)
    [] Pending(q) /\ ~q.nextPlus /\ ~q.nextLine -> Turn([q EXCEPT !.nextPage = FALSE])
    [] ~Pending(q) /\ l.kind = "LINE" -> DownTo(IF q.line > l.n THEN Eject(q) ELSE q, l.n)
    [] OTHER -> LinePlus(q, l)

Written(q, g, l) == IF l.kind = "NONE" THEN q ELSE [Logs(q, g) EXCEPT !.line = @ + 1]
Fitting(q) == IF Overflow(q) /\ ~q.inHead THEN Turn(q) ELSE q
ReportLine(q, g, l, next) ==
  SetNext(Written(Fitting(Positioned(IF Overflow(q) THEN Turn(q) ELSE q, l)), g, l), next)

-----------------------------------------------------------------------------
(* Sum counters.  The item that is summed is 1 in every DETAIL.             *)

Footings == {c \in Levels : Has(CF(c))}
Lower(c) == {b \in Footings : b < c}
SumsFooting(c, b) == d.rolling /\ b \in Lower(c) /\ \A e \in Lower(c) : e <= b
Subtotal(c) == d.rolling /\ Lower(c) # {}

SumAllDetail == [c \in Levels |-> IF c \in Footings /\ ~Subtotal(c) THEN ctr[c] + 1 ELSE ctr[c]]

\* zero_all_counters for a footing that has been passed: its counter rolls forward
\* (sum_this_counter).
RollForward(c) == [e \in Levels |-> IF e \in Footings /\ SumsFooting(e, c) THEN ctr[e] + ctr[c] ELSE ctr[e]]
\* Mutant: what was counted is lost to the higher footing.
ZeroCounterOnly(c) == [ctr EXCEPT ![c] = 0]
ZeroCounter(c) == [RollForward(c) EXCEPT ![c] = 0]

-----------------------------------------------------------------------------
Idle == pc.stmt = "none"
At(stmt, at) == pc.stmt = stmt /\ pc.at = at /\ pc.ctl # "use"
Goes(at, level) == pc' = [pc EXCEPT !.at = at, !.level = level, !.ctl = "go"]

\* Over the controls of a loop, then on to the next part.
Through(at, then) == IF pc.level < K THEN Goes(at, pc.level + 1) ELSE Goes(then, 1)

\* Mutant: also when it comes back from it.
ReturnsAgain(g) == Declared(g)
\* GENERATE or TERMINATE returns to the program with the number of the procedure; not when
\* it has just come back from it.
Returns(g) == Declared(g) /\ pc.ctl # "back"
ForDeclaratives == pc' = [pc EXCEPT !.ctl = "use"] /\ UNCHANGED <<d, initiated, control, suppress, ctr, n, ghosts>>

CobReportInitiate ==
  /\ Idle /\ ~initiated
  /\ initiated' = TRUE /\ n' = 0
  /\ p' = [Fresh(p) EXCEPT !.page = 1, !.line = 0, !.incr = TRUE, !.firstDetail = TRUE, !.firstGenerate = TRUE,
                           !.nextValue = 0, !.nextLine = FALSE, !.nextPlus = FALSE, !.nextPage = FALSE,
                           !.open = FALSE, !.clash = FALSE, !.pages = 0]
  /\ ctr' = [c \in Levels |-> 0] /\ count' = [c \in Levels |-> 0] /\ again' = FALSE
  /\ UNCHANGED <<d, control, suppress, lastUse, pc, given, before, quiet>>

\* GENERATE of the DETAIL, or of the report (no line is printed for it).
CobReportGenerate(new, detail) ==
  /\ Idle /\ initiated /\ n < MaxGenerates
  /\ n' = n + 1
  /\ pc' = [stmt |-> "GENERATE", at |-> "start", level |-> 1, ctl |-> "go", detail |-> detail]
  /\ f' = new /\ given' = new /\ before' = given
  /\ lastUse' = PAGE
  /\ p' = [Fresh(p) EXCEPT !.footNext = FALSE]
  /\ UNCHANGED <<d, initiated, val, sf, change, suppress, ctr, count, quiet, again>>

LineIncremented(q) == IF q.incr THEN [q EXCEPT !.incr = FALSE, !.line = @ + 1] ELSE q

FirstGenerate ==
  /\ At("GENERATE", "start") /\ p.firstGenerate
  /\ IF Declared(RH) /\ lastUse # RH
     THEN p' = LineIncremented(Fresh(p)) /\ lastUse' = RH /\ ForDeclaratives
     ELSE /\ p' = DoPageHeading(PrintGroup(LineIncremented(Fresh(p)), RH))
          /\ Goes("first", 1)
          /\ UNCHANGED <<d, initiated, control, suppress, ctr, lastUse, n, ghosts>>

\* A new page where the last GENERATE has filled one.
Paged(q) == [DoPageHeading([DoPageFooting(q) EXCEPT !.line = 1]) EXCEPT !.firstDetail = FALSE]
NewPage(q) ==
  IF q.line > LastDetail THEN Paged(q)
  ELSE IF q.line <= 1 \/ q.firstDetail
       THEN [DoPageHeading(IF q.firstDetail THEN [q EXCEPT !.line = 1] ELSE q) EXCEPT !.firstDetail = FALSE]
       ELSE q

\* A change of a control field is a break of its level and of all lower ones.
Changed == {c \in Controls : f[c] # val[c]}
\* Mutant: lower levels are not broken.
BrokenAlone == {c \in Controls : f[c] # val[c]}
Broken == {c \in Controls : \E b \in Changed : c <= b}

NextGenerate ==
  /\ At("GENERATE", "start") /\ ~p.firstGenerate
  /\ p' = NewPage(LineIncremented(Fresh(p)))
  /\ change' = Broken
  /\ sf' = [c \in Controls |-> IF c \in Broken THEN f[c] ELSE sf[c]]
  /\ f' = [c \in Controls |-> IF c \in Broken THEN val[c] ELSE f[c]]
  /\ Goes("footing", 1)
  /\ UNCHANGED <<d, initiated, val, suppress, ctr, lastUse, n, ghosts>>

FirstHeading ==
  /\ At("GENERATE", "first")
  /\ LET c == pc.level IN
     IF Has(CH(c)) /\ Returns(CH(c)) THEN ForDeclaratives /\ p' = Fresh(p) /\ UNCHANGED lastUse
     ELSE /\ p' = PrintGroup(Fresh(p), CH(c))
          /\ val' = [val EXCEPT ![c] = f[c]] /\ change' = change \ {c}
          /\ Through("first", "detail")
          /\ UNCHANGED <<d, initiated, f, sf, suppress, ctr, lastUse, n, ghosts>>

\* PrintFooting, of a GENERATE: NEXT GROUP PAGE waits for the other footings.
Unsuppressed(q, c) == IF c \in suppress THEN q ELSE PrintGroup(q, CF(c))
Footed(q) == [q EXCEPT !.justSet = FALSE, !.nextPage = FALSE, !.footNext = @ \/ q.nextPage]

\* Mutant: only behind a footing.
PutBackFooted(c) == IF c \in change /\ Has(CF(c)) THEN [f EXCEPT ![c] = sf[c]] ELSE f
\* The program's value goes back into the field, also where there is no footing.
PutBack(c) == IF c \in change THEN [f EXCEPT ![c] = sf[c]] ELSE f

ControlFooting ==
  /\ At("GENERATE", "footing")
  /\ LET c == pc.level IN
     IF c \in change /\ Has(CF(c)) /\ Returns(CF(c)) THEN ForDeclaratives /\ p' = Fresh(p) /\ UNCHANGED lastUse
     ELSE /\ IF c \in change /\ Has(CF(c))
             THEN p' = Footed(Unsuppressed(Fresh(p), c)) /\ suppress' = suppress \ {c} /\ ctr' = ZeroCounter(c)
             ELSE p' = Fresh(p) /\ UNCHANGED <<suppress, ctr>>
          /\ f' = PutBack(c)
          /\ quiet' = IF c \in change THEN quiet \ {CF(c), CH(c)} ELSE quiet
          /\ Through("footing", "page")
          /\ UNCHANGED <<d, initiated, val, sf, change, lastUse, n, given, before, count, again>>

PageAfterFootings ==
  /\ At("GENERATE", "page")
  /\ p' = IF p.footNext THEN Turn([Fresh(p) EXCEPT !.nextPage = FALSE, !.footNext = FALSE]) ELSE Fresh(p)
  /\ Goes("heading", 1)
  /\ UNCHANGED <<d, initiated, control, suppress, ctr, lastUse, n, ghosts>>

ControlHeading ==
  /\ At("GENERATE", "heading")
  /\ LET c == pc.level IN
     IF c \in change /\ Has(CH(c)) /\ Returns(CH(c)) THEN ForDeclaratives /\ p' = Fresh(p) /\ UNCHANGED lastUse
     ELSE /\ p' = IF c \in change THEN PrintGroup(Fresh(p), CH(c)) ELSE Fresh(p)
          /\ val' = IF c \in change THEN [val EXCEPT ![c] = f[c]] ELSE val
          /\ change' = change \ {c}
          /\ Through("heading", "detail")
          /\ UNCHANGED <<d, initiated, f, sf, suppress, ctr, lastUse, n, ghosts>>

\* The lines of the DETAIL.  Only LINE PLUS 2 and more counts where it is seen whether a
\* group of several lines fits the page.
Height == FoldLeft(LAMBDA h, l : IF l.kind = "PLUS" /\ l.n > 1 THEN h + l.n ELSE h, 0, d.lines[DETAIL])
WithRoom(q) ==
  IF Len(d.lines[DETAIL]) = 1 \/ q.line + Height <= LastDetail THEN q ELSE Paged(q)
PrintDetail(q) ==
  FoldLeft(LAMBDA r, l : ReportLine([r EXCEPT !.justSet = FALSE], DETAIL, l, NONE), WithRoom(q), d.lines[DETAIL])

\* The breaks of this GENERATE, from what the program gave it.
Breaks == IF p.firstGenerate THEN {} ELSE {c \in Controls : \E b \in c..K : given[b] # before[b]}

\* Behind the procedure of the DETAIL cob_report_generate starts over.
Detail ==
  /\ At("GENERATE", "detail")
  /\ ctr' = SumAllDetail
  /\ IF pc.detail /\ Declared(DETAIL) /\ lastUse # DETAIL
     THEN /\ lastUse' = DETAIL /\ p' = Fresh(p) /\ again' = TRUE /\ before' = given
          /\ pc' = [pc EXCEPT !.at = "start", !.ctl = "use"]
          /\ UNCHANGED count
     ELSE /\ p' = [(IF pc.detail THEN PrintDetail(Fresh(p)) ELSE Fresh(p))
                     EXCEPT !.firstGenerate = FALSE, !.justSet = FALSE, !.line = @ - 1, !.incr = TRUE]
          /\ pc' = [pc EXCEPT !.stmt = "none", !.at = "start", !.level = 1, !.ctl = "go"]
          /\ count' = [c \in Levels |-> IF c \in Breaks THEN 1 ELSE count[c] + 1]
          /\ UNCHANGED <<lastUse, again, before>>
  /\ UNCHANGED <<d, initiated, control, suppress, n, given, quiet>>

-----------------------------------------------------------------------------
\* Without any GENERATE there is nothing to do, and the report stays initiated.
CobReportTerminate(new) ==
  /\ Idle /\ initiated
  /\ ~p.firstGenerate
  /\ f' = new
  /\ pc' = [pc EXCEPT !.stmt = "TERMINATE", !.at = "footing", !.level = 1, !.ctl = "go"]
  /\ p' = Fresh(p)
  /\ UNCHANGED <<d, initiated, val, sf, change, suppress, ctr, lastUse, n, ghosts>>

LastControlFooting ==
  /\ At("TERMINATE", "footing")
  /\ LET c == pc.level IN
     IF Has(CF(c)) /\ Returns(CF(c)) THEN ForDeclaratives /\ p' = Fresh(p) /\ UNCHANGED lastUse
     ELSE /\ IF Has(CF(c))
             THEN /\ p' = Unsuppressed(Fresh(p), c)
                  /\ suppress' = suppress \ {c} /\ ctr' = ZeroCounter(c)
                  /\ quiet' = quiet \ {CF(c), CH(c)}
             ELSE p' = Fresh(p) /\ UNCHANGED <<suppress, ctr, quiet>>
          /\ Through("footing", "final")
          /\ UNCHANGED <<d, initiated, control, lastUse, n, given, before, count, again>>

FinalFooting ==
  /\ At("TERMINATE", "final")
  /\ IF Has(CF(FINAL)) /\ Returns(CF(FINAL)) THEN ForDeclaratives /\ p' = Fresh(p) /\ UNCHANGED lastUse
     ELSE /\ p' = DoPageFooting(PrintGroup(Fresh(p), CF(FINAL)))
          /\ ctr' = [ctr EXCEPT ![FINAL] = 0]
          /\ Goes("report footing", 1)
          /\ UNCHANGED <<d, initiated, control, suppress, lastUse, n, ghosts>>

ReportFooting ==
  /\ At("TERMINATE", "report footing")
  /\ IF Has(RF) /\ Returns(RF) THEN ForDeclaratives /\ p' = Fresh(p) /\ UNCHANGED lastUse
     ELSE /\ p' = [PrintGroup([Fresh(p) EXCEPT !.inReportFooting = TRUE], RF) EXCEPT !.inReportFooting = FALSE]
          /\ initiated' = FALSE
          /\ pc' = [pc EXCEPT !.stmt = "none", !.at = "start", !.level = 1, !.ctl = "go"]
          /\ UNCHANGED <<d, control, suppress, ctr, lastUse, n, ghosts>>

\* The group whose procedure runs.
UsedGroup ==
  CASE pc.at = "start" -> lastUse
    [] pc.at \in {"first", "heading"} -> CH(pc.level)
    [] pc.at = "footing" -> CF(pc.level)
    [] pc.at = "final" -> CF(FINAL)
    [] OTHER -> RF

\* The procedure runs and may execute SUPPRESS, which cob_report_suppress keeps with the
\* control of the group, heading or footing; then GENERATE or TERMINATE is called again.
UseBeforeReporting(suppresses) ==
  /\ pc.ctl = "use"
  /\ suppress' = IF suppresses THEN suppress \cup ({UsedGroup[2]} \cap Controls) ELSE suppress
  /\ quiet' = IF suppresses THEN quiet \cup {UsedGroup} ELSE quiet
  /\ p' = [Fresh(p) EXCEPT !.footNext = @ /\ pc.stmt = "TERMINATE"]
  /\ pc' = [pc EXCEPT !.ctl = "back"]
  /\ UNCHANGED <<d, initiated, control, ctr, lastUse, n, given, before, count, again>>

-----------------------------------------------------------------------------
Init ==
  /\ d \in Reports
  /\ p = [page |-> 0, line |-> 0, incr |-> FALSE, firstDetail |-> FALSE, firstGenerate |-> FALSE, inFoot |-> FALSE,
          inHead |-> FALSE, inReportFooting |-> FALSE, nextLine |-> FALSE, nextPlus |-> FALSE, nextPage |-> FALSE,
          nextValue |-> 0, justSet |-> FALSE, footNext |-> FALSE, open |-> FALSE, clash |-> FALSE, pages |-> 0, out |-> <<>>]
  /\ initiated = FALSE
  /\ f \in [Controls -> Values] /\ val = f /\ sf = f /\ given = f /\ before = f
  /\ change = {} /\ suppress = {} /\ quiet = {} /\ again = FALSE
  /\ ctr = [c \in Levels |-> 0] /\ count = [c \in Levels |-> 0]
  /\ lastUse = PAGE /\ n = 0
  /\ pc = [stmt |-> "none", at |-> "start", level |-> 1, ctl |-> "go", detail |-> FALSE]

Statement ==
  \/ CobReportInitiate
  \/ \E new \in [Controls -> Values] : (\E detail \in BOOLEAN : CobReportGenerate(new, detail)) \/ CobReportTerminate(new)

Step ==
  \/ FirstGenerate \/ NextGenerate \/ FirstHeading \/ ControlFooting \/ PageAfterFootings \/ ControlHeading \/ Detail
  \/ LastControlFooting \/ FinalFooting \/ ReportFooting
  \/ \E s \in BOOLEAN : UseBeforeReporting(s)

Next == Statement \/ Step

Spec == Init /\ [][Next]_vars

\* A procedure returns, and a statement that has begun goes on.  Every step of a statement
\* changes pc, so that this is WF_vars(Step); whether Step is enabled would take TLC long to see.
Places == [stmt : {"none", "GENERATE", "TERMINATE"}, level : Levels, ctl : {"go", "use", "back"}, detail : BOOLEAN,
           at : {"start", "first", "footing", "page", "heading", "detail", "final", "report footing"}]
GoesOn == ~Idle /\ pc' \in Places /\ pc' # pc
FairSpec == Spec /\ WF_pc(GoesOn)

-----------------------------------------------------------------------------
(* Properties. *)

Printed(g) == \E i \in DOMAIN p'.out : p'.out[i].group = g
Body(g) == g[1] \in {"CH", "CF", "DE"}

\* The total in a footing is the number of details since the last break of its level, however
\* the counters roll forward, whatever footings are suppressed, and wherever GENERATE is left
\* for a procedure and called again: but not if that was the procedure of a DETAIL.
TotalsRight == [][\A c \in Levels : Printed(CF(c)) /\ ~again => ctr[c] = count[c]]_vars

\* A GENERATE prints a footing exactly if its control or a higher one has another value than
\* in the GENERATE before, unless a procedure of the control has executed SUPPRESS since its last
\* footing.
FootingsAtBreaks ==
  [][At("GENERATE", "footing") /\ pc'.ctl # "use" =>
       LET c == pc.level IN
       Printed(CF(c)) <=> Has(CF(c)) /\ c \in Breaks /\ quiet \cap {CF(c), CH(c)} = {}]_vars

\* The footing of a GENERATE shows the values its details had, of its own control and the
\* higher ones; at the end the program has its new values back.
ValuesKept ==
  [][pc.stmt = "GENERATE" =>
       /\ \A c \in Controls : Printed(CF(c)) => \A b \in c..K : f[b] = before[b]
       /\ pc'.stmt = "none" => f' = given]_vars

\* TERMINATE does not take back the last decrement of LINE-COUNTER.
FirstBody == IF pc.stmt = "TERMINATE" THEN FirstDetail - 1 ELSE FirstDetail

\* Every page is headed once, then has its body, from FIRST DETAIL to LAST DETAIL, then is
\* footed; the PAGE-COUNTER is the number of the page.  Not so once a page has ended in the
\* first GENERATE or with a NEXT GROUP pending, or GENERATE has started over.
PagesInOrder ==
  [][~p'.clash /\ ~again => \A i \in DOMAIN p'.out : LET e == p'.out[i] IN
       /\ e.group \in {PAGE, RH} => ~e.open
       /\ e.group = PF => e.open
       /\ Body(e.group) => e.open /\ e.line \in FirstBody..LastDetail /\ e.page = e.pages]_vars

\* GENERATE and TERMINATE come to an end.
StatementsReturn == ~Idle ~> Idle
=============================================================================
