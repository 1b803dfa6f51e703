--------------------------- MODULE MCReportWriter ---------------------------
(* Instance of ReportWriter: two controls, a page of eight lines with room for *)
(* three lines of body, and descriptions that differ in what the steps look at. *)
EXTENDS ReportWriter

Plus(m) == [kind |-> "PLUS", n |-> m]
Line(m) == [kind |-> "LINE", n |-> m]
Page == [kind |-> "PAGE", n |-> 0]

\* Every group of the report except those in without.
Everything(without) ==
  [g \in Groups \ without |-> IF g = PF THEN <<Line(7)>> ELSE IF g = RH THEN <<Line(1)>> ELSE <<Plus(1)>>]

Report(lines, next, decl, rolling) ==
  [lines |-> lines, decl |-> decl, rolling |-> rolling, next |-> [g \in DOMAIN lines |-> IF g \in DOMAIN next THEN next[g] ELSE NONE]]

NoNext == [g \in {} |-> NONE]
Without(gs) == Everything(gs \cup {RH, RF})

MCReports ==
  { Report(Without({}), NoNext, {}, rolling) : rolling \in BOOLEAN }
  \cup { Report(Without({}), NoNext, decl, TRUE) : decl \in {{CF(1), CF(2)}, {CH(1), CF(2)}, {DETAIL}, {CF(FINAL), CF(1)}, {CH(2), DETAIL}} }
  \cup { Report(Everything({CH(1)}), NoNext, {RH, RF, CF(1)}, TRUE) }
  \cup { Report(Without({CH(1), CF(2)}), [g \in {CF(1)} |-> nx], {}, TRUE) : nx \in {Plus(2), Line(5), Page} }
  \cup { Report(Without({CH(1), CF(1)}), [g \in {CH(2), CF(2)} |-> nx], {CF(2)}, TRUE) : nx \in {Plus(1), Page} }
  \cup { Report([Without({CH(2), PF}) EXCEPT ![DETAIL] = ls], NoNext, {CF(1)}, FALSE)
         : ls \in {<<Plus(2)>>, <<Line(4)>>, <<Plus(1), Plus(2)>>, <<Line(3), Plus(1)>>} }

\* Left out: the lines of the last step, the pages but for their difference, and what is set
\* before it is read again.
MCView ==
  IF ~initiated THEN <<d, p.justSet, suppress, quiet, pc>>
  ELSE <<d, [p EXCEPT !.out = <<>>, !.page = 0, !.pages = 0], p.page - p.pages, suppress, quiet, pc, ctr, count, n, again,
         IF p.firstGenerate THEN <<>> ELSE <<val, given>>,
         IF pc.stmt = "GENERATE" THEN <<f, lastUse, change, [c \in change |-> sf[c]], IF p.firstGenerate THEN <<>> ELSE before>> ELSE <<>> >>
=============================================================================
