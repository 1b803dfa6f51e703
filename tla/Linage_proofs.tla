---------------------------- MODULE Linage_proofs ----------------------------
(***************************************************************************)
(* For any files, any contents of the data items and any lines advanced:   *)
(* LINAGE-COUNTER is where the paper stands, records are printed in the    *)
(* body, and EC-I-O-EOP is raised when it is due.                          *)
(***************************************************************************)
EXTENDS Linage, TLAPS

Page == [lin : Layout, ctr : Nat, at : Int, eop : BOOLEAN, ok : BOOLEAN, turned : BOOLEAN]

\* The counter is within a body that can be.
Fits(p) == p.ctr > 0 => p.lin.top >= 0 /\ p.lin.bot >= 0 /\ p.ctr <= p.lin.lines

\* A file that an OPEN has left without a stream has no page.
NoStreamNoPage == \A f \in Files : mode[f] = "OUTPUT" /\ ~stream[f] => ctr[f] = 0

IInv == TypeOK /\ CounterIsLine /\ NoStreamNoPage

-----------------------------------------------------------------------------
(* The steps of a WRITE. *)

\* file_linage_check lets pass only pages that can be.
LEMMA CheckFacts ==
  ASSUME NEW g \in Layout, NEW old \in Layout
  PROVE  /\ FileLinageCheck(g, old).ok \in BOOLEAN
         /\ FileLinageCheck(g, old).lin \in Layout
         /\ FileLinageCheck(g, old).ok =>
              /\ FileLinageCheck(g, old).lin.lines >= 1
              /\ FileLinageCheck(g, old).lin.top >= 0
              /\ FileLinageCheck(g, old).lin.bot >= 0
<1> DEFINE possible == ~(LinesBad(g) \/ FootBad(g) \/ g.top < 0 \/ g.bot < 0)
           foot == IF LinesBad(g) THEN old.foot ELSE g.foot
           top == IF LinesBad(g) \/ FootBad(g) THEN old.top ELSE g.top
           bot == IF LinesBad(g) \/ FootBad(g) \/ g.top < 0 THEN old.bot ELSE g.bot
<1>1. possible \in BOOLEAN
  OBVIOUS
<1>2. g.lines \in Int /\ foot \in Int /\ top \in Int /\ bot \in Int
  BY DEF Layout
<1>3. possible => g.lines >= 1 /\ top = g.top /\ bot = g.bot /\ g.top >= 0 /\ g.bot >= 0
  BY <1>2 DEF LinesBad, Layout
<1>4. FileLinageCheck(g, old).ok = possible
  BY DEF FileLinageCheck
<1>5. FileLinageCheck(g, old).lin = [lines |-> g.lines, foot |-> foot, top |-> top, bot |-> bot]
  BY DEF FileLinageCheck
<1> HIDE DEF possible, foot, top, bot
<1> QED
  BY <1>1, <1>2, <1>3, <1>4, <1>5 DEF Layout

\* The paper of the next page begins where this one's ends.
LEMMA TurnFacts ==
  ASSUME NEW f \in Files, items \in [Files -> Geometries], NEW p \in Page,
         NEW q, q = Turn(f, p)
  PROVE  /\ q \in Page /\ q.turned /\ (q.eop <=> p.eop)
         /\ ~q.ok => q.ctr = 0
         /\ q.ok => /\ q.ctr = 1 /\ Fits(q)
                    /\ q.at = p.at - p.ctr - p.lin.top + q.lin.top
<1>1. items[f] \in Layout
  BY GeometriesAssumption
<1>2. p.lin \in Layout /\ p.ctr \in Int /\ p.at \in Int
  BY DEF Page
<1>3. PICK c : c = FileLinageCheck(items[f], p.lin)
  OBVIOUS
<1>4. c.ok \in BOOLEAN /\ c.lin \in Layout /\ (c.ok => c.lin.lines >= 1 /\ c.lin.top >= 0 /\ c.lin.bot >= 0)
  BY <1>1, <1>2, <1>3, CheckFacts
<1>5. PICK a : a = p.at + (p.lin.lines - p.ctr) + p.lin.bot - (p.lin.top + p.lin.lines + p.lin.bot)
                   + (IF c.ok THEN c.lin.top ELSE 0)
  OBVIOUS
<1>6. a \in Int /\ (c.ok => a = p.at - p.ctr - p.lin.top + c.lin.top)
  BY <1>2, <1>4, <1>5 DEF Layout
<1>k. PICK k : k = IF c.ok THEN 1 ELSE 0
  OBVIOUS
<1>7. q = [p EXCEPT !.lin = c.lin, !.ok = c.ok, !.turned = TRUE, !.ctr = k, !.at = a]
  BY <1>3, <1>5, <1>k DEF Turn, SizeOf
<1>m. k \in Nat
  BY <1>k
<1>8. /\ q.lin = c.lin /\ q.ok = c.ok /\ q.turned = TRUE /\ q.eop = p.eop
      /\ q.ctr = k /\ q.at = a
  BY <1>7 DEF Page
<1>9. q \in Page
  BY <1>4, <1>6, <1>7, <1>m DEF Page
<1> QED
  BY <1>4, <1>6, <1>8, <1>9, <1>k DEF Fits

\* cob_linage_write_opt on a page that can be: it turns the page, or goes down n lines with
\* the counter.
LEMMA OptFacts ==
  ASSUME NEW f \in Files, items \in [Files -> Geometries], NEW p \in Page, p.ok, Fits(p),
         NEW n \in {PAGE} \cup (Nat \ {0}), NEW asked \in BOOLEAN,
         NEW q, q = CobLinageWriteOpt(f, n, asked, p)
  PROVE  /\ q \in Page /\ Fits(q)
         /\ q.ok <=> q.ctr > 0
         /\ q.ok => p.ctr > 0
         /\ q.ok => (q.eop <=> p.eop \/ (n # PAGE /\ EndsPage(p.lin, p.ctr + n, asked)))
         /\ q.ok => \/ q.turned /\ q.ctr = 1 /\ q.at = p.at - p.ctr - p.lin.top + q.lin.top
                    \/ /\ q.turned = p.turned /\ q.lin = p.lin /\ n # PAGE
                       /\ q.ctr = p.ctr + n /\ q.at = p.at + n - 1
<1>1. p.lin \in Layout /\ p.ctr \in Nat /\ p.at \in Int /\ p.eop \in BOOLEAN
  BY DEF Page
<1>2. CASE p.ctr = 0
  <2>1. q = [p EXCEPT !.ok = FALSE]
    BY <1>2 DEF CobLinageWriteOpt
  <2>2. q \in Page /\ q.ok = FALSE /\ q.ctr = 0
    BY <1>2, <2>1 DEF Page
  <2>3. Fits(q)
    BY <2>2 DEF Fits
  <2>4. ~q.ok /\ ~(q.ctr > 0)
    BY <2>2
  <2> QED
    BY <2>2, <2>3, <2>4
<1>3. CASE p.ctr # 0 /\ n = PAGE
  <2>1. q = Turn(f, p)
    BY <1>3 DEF CobLinageWriteOpt
  <2>2. /\ q \in Page /\ q.turned /\ (q.eop <=> p.eop)
        /\ ~q.ok => q.ctr = 0
        /\ q.ok => q.ctr = 1 /\ Fits(q) /\ q.at = p.at - p.ctr - p.lin.top + q.lin.top
    BY <2>1, TurnFacts
  <2>3. Fits(q) /\ (q.ok <=> q.ctr > 0)
    BY <2>2 DEF Fits
  <2>4. q.eop <=> p.eop \/ (n # PAGE /\ EndsPage(p.lin, p.ctr + n, asked))
    BY <1>3, <2>2
  <2>5. p.ctr > 0
    BY <1>1, <1>3
  <2> QED
    BY <2>2, <2>3, <2>4, <2>5
<1>4. CASE p.ctr # 0 /\ n # PAGE
  <2>1. n \in Nat /\ n >= 1
    BY <1>4
  <2>2. EndsPage(p.lin, p.ctr + n, asked) \in BOOLEAN
    BY <1>1, <2>1 DEF EndsPage
  <2>3. PICK r : r = [p EXCEPT !.eop = @ \/ EndsPage(p.lin, p.ctr + n, asked)]
    OBVIOUS
  <2>4. /\ r \in Page /\ r.ctr = p.ctr /\ r.lin = p.lin /\ r.at = p.at /\ r.ok /\ r.turned = p.turned
        /\ (r.eop <=> p.eop \/ EndsPage(p.lin, p.ctr + n, asked))
    BY <2>2, <2>3 DEF Page
  <2>5. q = IF Overflows(p.lin, p.ctr + n) THEN Turn(f, r)
            ELSE Down([r EXCEPT !.ctr = p.ctr + n], AlsoDown(n))
    BY <1>4, <2>3 DEF CobLinageWriteOpt
  <2>6. CASE Overflows(p.lin, p.ctr + n)
    <3>1. /\ q \in Page /\ q.turned /\ (q.eop <=> r.eop)
          /\ ~q.ok => q.ctr = 0
          /\ q.ok => q.ctr = 1 /\ Fits(q) /\ q.at = r.at - r.ctr - r.lin.top + q.lin.top
      BY <2>4, <2>5, <2>6, TurnFacts
    <3>2. Fits(q) /\ (q.ok <=> q.ctr > 0)
      BY <3>1 DEF Fits
    <3>3. q.eop <=> p.eop \/ (n # PAGE /\ EndsPage(p.lin, p.ctr + n, asked))
      BY <1>4, <2>4, <3>1
    <3>4. p.ctr > 0
      BY <1>1, <1>4
    <3>5. q.ok => q.turned /\ q.ctr = 1 /\ q.at = p.at - p.ctr - p.lin.top + q.lin.top
      BY <2>4, <3>1
    <3> QED
      BY <3>1, <3>2, <3>3, <3>4, <3>5
  <2>7. CASE ~Overflows(p.lin, p.ctr + n)
    <3>1. AlsoDown(n) = n - 1
      BY <2>1 DEF AlsoDown
    <3>2. q = [r EXCEPT !.ctr = p.ctr + n, !.at = r.at + (n - 1)]
      BY <2>4, <2>5, <2>7, <3>1 DEF Down, Page
    <3>3. p.ctr + n \in Nat /\ p.ctr + n > 0 /\ p.ctr > 0 /\ r.at + (n - 1) \in Int
          /\ r.at + (n - 1) = p.at + n - 1
      BY <1>1, <1>4, <2>1, <2>4
    <3>4. p.ctr + n <= p.lin.lines
      BY <1>1, <2>1, <2>7 DEF Overflows, Layout
    <3>5. p.lin.top >= 0 /\ p.lin.bot >= 0
      BY <3>3 DEF Fits
    <3>6. /\ q.ctr = p.ctr + n /\ q.at = p.at + n - 1 /\ q.lin = p.lin
          /\ q.turned = p.turned /\ q.ok = r.ok /\ q.eop = r.eop
      BY <2>4, <3>2, <3>3 DEF Page
    <3>7. q \in Page
      BY <2>4, <3>2, <3>3 DEF Page
    <3>8. Fits(q) /\ q.ok /\ q.ctr > 0
      BY <2>4, <3>3, <3>4, <3>5, <3>6 DEF Fits
    <3>9. q.eop <=> p.eop \/ (n # PAGE /\ EndsPage(p.lin, p.ctr + n, asked))
      BY <1>4, <2>4, <3>6
    <3> QED
      BY <1>4, <3>3, <3>6, <3>7, <3>8, <3>9
  <2> QED
    BY <2>6, <2>7
<1> QED
  BY <1>2, <1>3, <1>4

\* lineseq_write from a state of the invariant: where the record is printed, what the counter
\* is afterwards, and whether the page ends.
LEMMA Written ==
  ASSUME IInv, NEW f \in Files, mode[f] = "OUTPUT", NEW adv \in Advances, NEW asked \in BOOLEAN,
         ~Faults(f, adv), NEW w, w = LineseqWrite(f, adv, asked)
  PROVE  /\ w.after \in Page /\ Fits(w.after)
         /\ w.after.ok <=> w.after.ctr > 0
         /\ w.after.ok => /\ stream[f] /\ ctr[f] > 0
                          /\ w.after.at = w.after.lin.top + w.after.ctr - 1
                          /\ w.after.eop <=> eop \/ (adv.lines # PAGE /\ EndsPage(lin[f], ctr[f] + adv.lines, asked))
         /\ w.before \in Page
         /\ w.after.ok => /\ w.before.ok
                          /\ \/ w.before.at \in w.before.lin.top .. w.before.lin.top + w.before.lin.lines - 1
                             \/ w.before.turned /\ w.before.at = w.before.lin.top - 1
<1> DEFINE p0 == TopOfFirst(f, PageOf(f))
<1>1. /\ lin[f] \in Layout /\ ctr[f] \in Nat /\ at[f] \in Int /\ eop \in BOOLEAN
      /\ stream[f] \in BOOLEAN /\ needsTop[f] \in BOOLEAN
      /\ items \in [Files -> Geometries]
      /\ ctr[f] > 0 => lin[f].top >= 0 /\ lin[f].bot >= 0 /\ ctr[f] <= lin[f].lines
  BY DEF IInv, TypeOK
<1>2. adv.lines \in {PAGE} \cup (Nat \ {0}) /\ adv.phrase \in {"BEFORE", "AFTER"}
  BY AdvancesAssumption
<1>3. PICK p \in Page : p = p0 /\ p.lin = lin[f] /\ p.ctr = ctr[f] /\ (p.eop <=> eop) /\ p.ok
                        /\ p.turned = FALSE
                        /\ p.at = at[f] + (IF needsTop[f] /\ lin[f].top > 0 THEN lin[f].top ELSE 0)
  <2>1. PageOf(f) \in Page
    BY <1>1 DEF PageOf, Page
  <2>2. PICK a : a = at[f] + (IF needsTop[f] /\ lin[f].top > 0 THEN lin[f].top ELSE 0)
    OBVIOUS
  <2>3. a \in Int
    BY <1>1, <2>2 DEF Layout
  <2>4. p0 = [PageOf(f) EXCEPT !.at = a]
    BY <2>2 DEF TopOfFirst, PageOf
  <2>5. p0 \in Page
    BY <2>1, <2>3, <2>4 DEF Page
  <2> QED
    BY <2>1, <2>2, <2>4, <2>5 DEF PageOf, Page
<1>4. Fits(p)
  BY <1>1, <1>3 DEF Fits
<1>5. p.ctr > 0 => stream[f]
  BY <1>1, <1>3 DEF IInv, NoStreamNoPage
<1>6. p.ctr > 0 => p.at = p.lin.top + p.ctr - 1
  <2>1. SUFFICES ASSUME ctr[f] > 0
                 PROVE  p.at = lin[f].top + ctr[f] - 1
    BY <1>3
  <2>2. stream[f]
    BY <1>3, <1>5, <2>1
  <2>3. CASE needsTop[f]
    <3>1. at[f] = 0 /\ ctr[f] = 1
      BY <2>1, <2>2, <2>3 DEF IInv, CounterIsLine
    <3>2. p.at = lin[f].top
      BY <1>1, <1>3, <2>1, <2>3, <3>1 DEF Layout
    <3> QED
      BY <1>1, <3>1, <3>2 DEF Layout
  <2>4. CASE ~needsTop[f]
    <3>1. at[f] = lin[f].top + ctr[f] - 1
      BY <2>1, <2>2, <2>4 DEF IInv, CounterIsLine
    <3>2. p.at = at[f]
      BY <1>1, <1>3, <2>4
    <3> QED
      BY <3>1, <3>2
  <2> QED
    BY <2>3, <2>4
<1> HIDE DEF p0
<1>7. CASE adv.phrase = "AFTER"
  <2>0. items \in [Files -> Geometries] /\ p.ok
    BY <1>1, <1>3
  <2>1. PICK q : q = CobLinageWriteOpt(f, adv.lines, asked, p)
    OBVIOUS
  <2>2. /\ q \in Page /\ Fits(q)
        /\ q.ok <=> q.ctr > 0
        /\ q.ok => p.ctr > 0
        /\ q.ok => (q.eop <=> p.eop \/ (adv.lines # PAGE /\ EndsPage(p.lin, p.ctr + adv.lines, asked)))
        /\ q.ok => \/ q.turned /\ q.ctr = 1 /\ q.at = p.at - p.ctr - p.lin.top + q.lin.top
                   \/ /\ q.turned = p.turned /\ q.lin = p.lin /\ adv.lines # PAGE
                      /\ q.ctr = p.ctr + adv.lines /\ q.at = p.at + adv.lines - 1
    BY <1>2, <1>4, <2>0, <2>1, OptFacts
  <2>3. w = [before |-> q, after |-> IF q.ok THEN Down(q, 1) ELSE q]
    BY <1>3, <1>7, <2>1 DEF LineseqWrite, p0
  <2>4. w.before = q /\ w.after = (IF q.ok THEN Down(q, 1) ELSE q)
    BY <2>3
  <2>5. CASE ~q.ok
    <3>1. w.after = q
      BY <2>4, <2>5
    <3> QED
      BY <2>2, <2>4, <2>5, <3>1
  <2>6. CASE q.ok
    <3>1. q.at \in Int /\ q.at + 1 \in Int /\ q.lin \in Layout /\ q.ctr \in Nat
      BY <2>2 DEF Page
    <3>2. PICK r : r = [q EXCEPT !.at = q.at + 1]
      OBVIOUS
    <3>3. w.after = r
      BY <2>4, <2>6, <3>2 DEF Down
    <3>4. /\ r \in Page /\ r.lin = q.lin /\ r.ctr = q.ctr /\ r.ok /\ r.at = q.at + 1 /\ (r.eop <=> q.eop)
      BY <2>2, <2>6, <3>1, <3>2 DEF Page
    <3>5. Fits(r) /\ r.ctr > 0
      BY <2>2, <2>6, <3>4 DEF Fits
    <3>6. p.at = p.lin.top + p.ctr - 1 /\ p.lin \in Layout /\ p.ctr \in Nat /\ p.at \in Int
      BY <1>6, <2>2, <2>6 DEF Page
    <3>7. /\ r.at = r.lin.top + r.ctr - 1
          /\ \/ q.at \in q.lin.top .. q.lin.top + q.lin.lines - 1
             \/ q.turned /\ q.at = q.lin.top - 1
      <4>1. CASE q.turned /\ q.ctr = 1 /\ q.at = p.at - p.ctr - p.lin.top + q.lin.top
        <5>1. q.at = q.lin.top - 1
          BY <3>1, <3>6, <4>1 DEF Layout
        <5>2. r.at = r.lin.top + r.ctr - 1
          BY <3>1, <3>4, <4>1, <5>1 DEF Layout
        <5> QED
          BY <4>1, <5>1, <5>2
      <4>2. CASE /\ q.lin = p.lin /\ adv.lines # PAGE
                 /\ q.ctr = p.ctr + adv.lines /\ q.at = p.at + adv.lines - 1
        <5>1. adv.lines \in Nat /\ adv.lines >= 1
          BY <1>2, <4>2
        <5>2. q.at = q.lin.top + q.ctr - 2
          BY <3>1, <3>6, <4>2, <5>1 DEF Layout
        <5>3. q.ctr >= 2 /\ q.ctr <= q.lin.lines
          BY <2>2, <2>6, <3>1, <4>2, <5>1, <3>6 DEF Fits
        <5>4. q.at \in q.lin.top .. q.lin.top + q.lin.lines - 1
          BY <3>1, <5>2, <5>3 DEF Layout
        <5>5. r.at = r.lin.top + r.ctr - 1
          BY <3>1, <3>4, <5>2 DEF Layout
        <5> QED
          BY <5>4, <5>5
      <4> QED
        BY <2>2, <2>6, <4>1, <4>2
    <3>8. r.eop <=> eop \/ (adv.lines # PAGE /\ EndsPage(lin[f], ctr[f] + adv.lines, asked))
      BY <1>3, <2>2, <2>6, <3>4
    <3>9. stream[f] /\ ctr[f] > 0
      BY <1>3, <1>5, <2>2, <2>6
    <3> QED
      BY <2>2, <2>4, <2>6, <3>3, <3>4, <3>5, <3>7, <3>8, <3>9
  <2> QED
    BY <2>5, <2>6
<1>8. CASE adv.phrase = "BEFORE"
  <2>1. PICK r : r = [p EXCEPT !.at = p.at + 1]
    OBVIOUS
  <2>2. /\ r \in Page /\ r.lin = p.lin /\ r.ctr = p.ctr /\ r.ok /\ r.at = p.at + 1 /\ (r.eop <=> p.eop)
    BY <1>3, <2>1 DEF Page
  <2>3. Fits(r)
    BY <1>4, <2>2 DEF Fits
  <2>4. PICK q : q = CobLinageWriteOpt(f, adv.lines, asked, r)
    OBVIOUS
  <2>5. /\ q \in Page /\ Fits(q)
        /\ q.ok <=> q.ctr > 0
        /\ q.ok => r.ctr > 0
        /\ q.ok => (q.eop <=> r.eop \/ (adv.lines # PAGE /\ EndsPage(r.lin, r.ctr + adv.lines, asked)))
        /\ q.ok => \/ q.turned /\ q.ctr = 1 /\ q.at = r.at - r.ctr - r.lin.top + q.lin.top
                   \/ /\ q.turned = r.turned /\ q.lin = r.lin /\ adv.lines # PAGE
                      /\ q.ctr = r.ctr + adv.lines /\ q.at = r.at + adv.lines - 1
    BY <1>1, <1>2, <2>2, <2>3, <2>4, OptFacts
  <2>6. w = [before |-> p, after |-> q]
    BY <1>3, <1>8, <2>1, <2>4 DEF LineseqWrite, Down, p0
  <2>7. w.before = p /\ w.after = q
    BY <2>6
  <2>8. CASE ~q.ok
    BY <2>5, <2>7, <2>8
  <2>9. CASE q.ok
    <3>1. stream[f] /\ ctr[f] > 0
      BY <1>3, <1>5, <2>2, <2>5, <2>9
    <3>2. /\ p.at = p.lin.top + p.ctr - 1 /\ p.lin \in Layout /\ p.ctr \in Nat /\ p.at \in Int
          /\ p.ctr >= 1 /\ p.ctr <= p.lin.lines
      BY <1>3, <1>4, <1>6, <3>1 DEF Page, Fits
    <3>3. q.at \in Int /\ q.lin \in Layout /\ q.ctr \in Nat
      BY <2>5 DEF Page
    <3>4. p.at \in p.lin.top .. p.lin.top + p.lin.lines - 1
      BY <3>2 DEF Layout
    <3>5. q.at = q.lin.top + q.ctr - 1
      <4>1. CASE q.turned /\ q.ctr = 1 /\ q.at = r.at - r.ctr - r.lin.top + q.lin.top
        BY <2>2, <3>2, <3>3, <4>1 DEF Layout
      <4>2. CASE /\ q.lin = r.lin /\ adv.lines # PAGE
                 /\ q.ctr = r.ctr + adv.lines /\ q.at = r.at + adv.lines - 1
        <5>1. adv.lines \in Nat
          BY <1>2, <4>2
        <5> QED
          BY <2>2, <3>2, <3>3, <4>2, <5>1 DEF Layout
      <4> QED
        BY <2>5, <2>9, <4>1, <4>2
    <3>6. q.eop <=> eop \/ (adv.lines # PAGE /\ EndsPage(lin[f], ctr[f] + adv.lines, asked))
      BY <1>3, <2>2, <2>5, <2>9
    <3>7. p.ok
      BY <1>3
    <3> QED
      BY <2>5, <2>7, <2>9, <3>1, <3>4, <3>5, <3>6, <3>7
  <2> QED
    BY <2>8, <2>9
<1> QED
  BY <1>2, <1>7, <1>8

-----------------------------------------------------------------------------
(* The invariant: each statement keeps it. *)

\* save_status keeps its variables in their types.
LEMMA SavedTypes ==
  ASSUME NEW s \in Statuses, NEW pending \in BOOLEAN, SaveStatus(s, pending)
  PROVE  eop' \in BOOLEAN /\ status' \in Statuses /\ exception' \in {"none", "EOP", "error"}
BY DEF SaveStatus

\* OPEN begins a page, or leaves the file without one.
LEMMA OpenKeeps ==
  ASSUME IInv, NEW f \in Files, CobOpen(f)
  PROVE  IInv'
<1>1. PICK c : c = FileLinageCheck(items[f], lin[f])
  OBVIOUS
<1>2. c.ok \in BOOLEAN /\ c.lin \in Layout /\ (c.ok => c.lin.lines >= 1 /\ c.lin.top >= 0 /\ c.lin.bot >= 0)
  BY <1>1, CheckFacts, GeometriesAssumption DEF IInv, TypeOK
<1>3. PICK k : k = IF c.ok THEN 1 ELSE 0
  OBVIOUS
<1>4. k \in Nat /\ (k > 0 <=> c.ok) /\ k <= 1
  BY <1>2, <1>3
<1>5. /\ lin' = [lin EXCEPT ![f] = c.lin] /\ ctr' = [ctr EXCEPT ![f] = k]
      /\ stream' = [stream EXCEPT ![f] = c.ok] /\ mode' = [mode EXCEPT ![f] = "OUTPUT"]
      /\ at' = [at EXCEPT ![f] = 0] /\ UNCHANGED <<items, alive>>
      /\ due' = FALSE /\ printed' = Nowhere
  BY <1>1, <1>3 DEF CobOpen
<1>6. PICK n \in BOOLEAN : needsTop' = [needsTop EXCEPT ![f] = n] /\ (c.ok => n)
  <2>1. PICK n : n = (needsTop[f] \/ c.ok)
    OBVIOUS
  <2>2. needsTop' = [needsTop EXCEPT ![f] = n]
    BY <1>1, <2>1 DEF CobOpen
  <2>3. n \in BOOLEAN /\ (c.ok => n)
    BY <1>2, <2>1
  <2> QED
    BY <2>2, <2>3
<1>7. eop' \in BOOLEAN /\ status' \in Statuses /\ exception' \in {"none", "EOP", "error"}
  <2>1. PICK s : s = IF c.ok THEN "00" ELSE "57"
    OBVIOUS
  <2>2. s \in Statuses /\ SaveStatus(s, eop)
    BY <1>1, <2>1 DEF CobOpen, Statuses
  <2> QED
    BY <2>2, SavedTypes DEF IInv, TypeOK
<1>8. \A g \in Files : IF g = f THEN /\ lin'[g] = c.lin /\ ctr'[g] = k /\ stream'[g] = c.ok
                                     /\ needsTop'[g] = n /\ at'[g] = 0 /\ mode'[g] = "OUTPUT"
                       ELSE /\ lin'[g] = lin[g] /\ ctr'[g] = ctr[g] /\ stream'[g] = stream[g]
                            /\ needsTop'[g] = needsTop[g] /\ at'[g] = at[g] /\ mode'[g] = mode[g]
  BY <1>5, <1>6 DEF IInv, TypeOK
<1>9. TypeOK'
  <2>1. /\ lin' \in [Files -> Layout] /\ ctr' \in [Files -> Nat] /\ at' \in [Files -> Int]
        /\ mode' \in [Files -> {"CLOSED", "OUTPUT"}] /\ items' \in [Files -> Geometries]
    BY <1>2, <1>4, <1>5 DEF IInv, TypeOK
  <2>2. stream' \in [Files -> BOOLEAN] /\ needsTop' \in [Files -> BOOLEAN]
    BY <1>2, <1>5, <1>6 DEF IInv, TypeOK
  <2>3. alive' \in BOOLEAN /\ due' \in BOOLEAN
    BY <1>5 DEF IInv, TypeOK
  <2>4. printed' \in [line : Int, top : Int, lines : Int, turned : BOOLEAN]
    BY <1>5 DEF Nowhere
  <2>5. ASSUME NEW g \in Files, ctr'[g] > 0
        PROVE  lin'[g].top >= 0 /\ lin'[g].bot >= 0 /\ ctr'[g] <= lin'[g].lines
    <3>1. CASE g = f
      BY <1>2, <1>4, <1>8, <2>5, <3>1 DEF Layout
    <3>2. CASE g # f
      BY <1>8, <2>5, <3>2 DEF IInv, TypeOK
    <3> QED
      BY <3>1, <3>2
  <2> QED
    BY <1>7, <2>1, <2>2, <2>3, <2>4, <2>5 DEF TypeOK
<1>10. CounterIsLine'
  <2>1. SUFFICES ASSUME NEW g \in Files, stream'[g], ctr'[g] > 0
                 PROVE  IF needsTop'[g] THEN at'[g] = 0 /\ ctr'[g] = 1
                        ELSE at'[g] = lin'[g].top + ctr'[g] - 1
    BY DEF CounterIsLine
  <2>2. CASE g = f
    <3>1. needsTop'[g] /\ at'[g] = 0 /\ ctr'[g] = 1
      BY <1>3, <1>4, <1>6, <1>8, <2>1, <2>2
    <3> QED
      BY <3>1
  <2>3. CASE g # f
    BY <1>8, <2>1, <2>3 DEF IInv, CounterIsLine
  <2> QED
    BY <2>2, <2>3
<1>11. NoStreamNoPage'
  <2>1. SUFFICES ASSUME NEW g \in Files, mode'[g] = "OUTPUT", ~stream'[g]
                 PROVE  ctr'[g] = 0
    BY DEF NoStreamNoPage
  <2>2. CASE g = f
    BY <1>3, <1>8, <2>1, <2>2
  <2>3. CASE g # f
    BY <1>8, <2>1, <2>3 DEF IInv, NoStreamNoPage
  <2> QED
    BY <2>2, <2>3
<1> QED
  BY <1>9, <1>10, <1>11 DEF IInv

\* CLOSE leaves the page as it is, and takes the stream away.
LEMMA CloseKeeps ==
  ASSUME IInv, NEW f \in Files, CobClose(f)
  PROVE  IInv'
<1>1. /\ mode' = [mode EXCEPT ![f] = "CLOSED"] /\ stream' = [stream EXCEPT ![f] = FALSE]
      /\ due' = FALSE /\ printed' = Nowhere /\ UNCHANGED <<items, lin, ctr, needsTop, alive, at>>
  BY DEF CobClose, page
<1>2. eop' \in BOOLEAN /\ status' \in Statuses /\ exception' \in {"none", "EOP", "error"}
  <2>1. PICK s : s = IF mode[f] = "CLOSED" THEN "42" ELSE "00"
    OBVIOUS
  <2>2. s \in Statuses /\ SaveStatus(s, eop)
    BY <2>1 DEF CobClose, Statuses
  <2> QED
    BY <2>2, SavedTypes DEF IInv, TypeOK
<1>3. \A g \in Files : IF g = f THEN mode'[g] = "CLOSED" /\ stream'[g] = FALSE
                       ELSE mode'[g] = mode[g] /\ stream'[g] = stream[g]
  BY <1>1 DEF IInv, TypeOK
<1>4. TypeOK'
  <2>1. mode' \in [Files -> {"CLOSED", "OUTPUT"}] /\ stream' \in [Files -> BOOLEAN]
    BY <1>1 DEF IInv, TypeOK
  <2>2. printed' \in [line : Int, top : Int, lines : Int, turned : BOOLEAN]
    BY <1>1 DEF Nowhere
  <2> QED
    BY <1>1, <1>2, <2>1, <2>2 DEF IInv, TypeOK
<1>5. CounterIsLine'
  BY <1>1, <1>3 DEF IInv, CounterIsLine
<1>6. NoStreamNoPage'
  BY <1>1, <1>3 DEF IInv, NoStreamNoPage
<1> QED
  BY <1>4, <1>5, <1>6 DEF IInv

\* A statement that is refused, and an assignment to a data item.
LEMMA OthersKeep ==
  ASSUME IInv, NEW f \in Files,
         \/ CobWriteDenied(f)
         \/ \E g \in Geometries : MoveItems(f, g)
  PROVE  IInv'
<1>1. CASE CobWriteDenied(f)
  <2>1. /\ UNCHANGED <<items, lin, ctr, needsTop, mode, stream, alive, at>>
        /\ due' = FALSE /\ printed' = Nowhere /\ SaveStatus("48", eop)
    BY <1>1 DEF CobWriteDenied, page
  <2>2. eop' \in BOOLEAN /\ status' \in Statuses /\ exception' \in {"none", "EOP", "error"}
    BY <2>1, SavedTypes DEF IInv, TypeOK, Statuses
  <2>3. printed' \in [line : Int, top : Int, lines : Int, turned : BOOLEAN]
    BY <2>1 DEF Nowhere
  <2>4. TypeOK'
    BY <2>1, <2>2, <2>3 DEF IInv, TypeOK
  <2> QED
    BY <2>1, <2>4 DEF IInv, CounterIsLine, NoStreamNoPage
<1>2. CASE \E g \in Geometries : MoveItems(f, g)
  <2>1. PICK g \in Geometries : MoveItems(f, g)
    BY <1>2
  <2>2. /\ items' = [items EXCEPT ![f] = g]
        /\ UNCHANGED <<lin, ctr, needsTop, mode, stream, eop, status, exception, alive, at, printed, due>>
    BY <2>1 DEF MoveItems, page, paper
  <2>3. TypeOK'
    BY <2>2 DEF IInv, TypeOK
  <2> QED
    BY <2>2, <2>3 DEF IInv, CounterIsLine, NoStreamNoPage
<1> QED
  BY <1>1, <1>2

\* What a WRITE on a stream does, and that it keeps the invariant.
LEMMA WriteKeeps ==
  ASSUME IInv, NEW f \in Files, NEW adv \in Advances, NEW asked \in BOOLEAN, CobWrite(f, adv, asked)
  PROVE  IInv'
<1>1. CASE Faults(f, adv) /\ alive' = FALSE /\ UNCHANGED <<page, eop, status, exception, paper, due>>
  <2>1. UNCHANGED <<items, lin, ctr, needsTop, mode, stream, eop, status, exception, at, printed, due>>
    BY <1>1 DEF CobWrite, page, paper
  <2>2. TypeOK'
    BY <1>1, <2>1 DEF IInv, TypeOK
  <2> QED
    BY <2>1, <2>2 DEF IInv, CounterIsLine, NoStreamNoPage
<1>2. CASE ~Faults(f, adv)
  <2>1. PICK w : w = LineseqWrite(f, adv, asked)
    OBVIOUS
  <2>2. mode[f] = "OUTPUT" /\ alive /\ UNCHANGED <<items, mode, stream>>
    BY DEF CobWrite
  <2>3. /\ w.after \in Page /\ Fits(w.after)
        /\ w.after.ok <=> w.after.ctr > 0
        /\ w.after.ok => stream[f] /\ ctr[f] > 0 /\ w.after.at = w.after.lin.top + w.after.ctr - 1
        /\ w.before \in Page
    BY <1>2, <2>1, <2>2, Written
  <2>4. PICK a : a = IF ctr[f] = 0 THEN at[f] ELSE w.after.at
    OBVIOUS
  <2>5. /\ lin' = [lin EXCEPT ![f] = w.after.lin] /\ ctr' = [ctr EXCEPT ![f] = w.after.ctr]
        /\ at' = [at EXCEPT ![f] = a] /\ needsTop' = [needsTop EXCEPT ![f] = FALSE]
        /\ due' = IsDue(f, adv, asked) /\ UNCHANGED alive
    BY <1>2, <2>1, <2>4 DEF CobWrite
  <2>6. eop' \in BOOLEAN /\ status' \in Statuses /\ exception' \in {"none", "EOP", "error"}
    <3>1. PICK s : s = IF w.after.ok THEN "00" ELSE "57"
      OBVIOUS
    <3>2. s \in Statuses /\ SaveStatus(s, w.after.eop)
      BY <1>2, <2>1, <3>1 DEF CobWrite, Statuses
    <3>3. w.after.eop \in BOOLEAN
      BY <2>3 DEF Page
    <3> QED
      BY <3>2, <3>3, SavedTypes
  <2>7. printed' \in [line : Int, top : Int, lines : Int, turned : BOOLEAN]
    <3>1. printed' = IF w.before.ok
                     THEN [line |-> w.before.at, top |-> w.before.lin.top, lines |-> w.before.lin.lines,
                           turned |-> w.before.turned]
                     ELSE Nowhere
      BY <1>2, <2>1 DEF CobWrite
    <3>2. w.before.at \in Int /\ w.before.lin.top \in Int /\ w.before.lin.lines \in Int /\ w.before.turned \in BOOLEAN
      BY <2>3 DEF Page, Layout
    <3> QED
      BY <3>1, <3>2 DEF Nowhere
  <2>8. a \in Int /\ w.after.lin \in Layout /\ w.after.ctr \in Nat
    BY <2>3, <2>4 DEF Page, IInv, TypeOK
  <2>9. \A g \in Files : IF g = f THEN /\ lin'[g] = w.after.lin /\ ctr'[g] = w.after.ctr
                                       /\ needsTop'[g] = FALSE /\ at'[g] = a
                         ELSE /\ lin'[g] = lin[g] /\ ctr'[g] = ctr[g]
                              /\ needsTop'[g] = needsTop[g] /\ at'[g] = at[g]
    BY <2>5 DEF IInv, TypeOK
  <2>10. TypeOK'
    <3>1. /\ lin' \in [Files -> Layout] /\ ctr' \in [Files -> Nat] /\ at' \in [Files -> Int]
          /\ needsTop' \in [Files -> BOOLEAN]
      BY <2>5, <2>8 DEF IInv, TypeOK
    <3>2. due' \in BOOLEAN
      BY <2>5 DEF IsDue, IInv, TypeOK
    <3>3. ASSUME NEW g \in Files, ctr'[g] > 0
          PROVE  lin'[g].top >= 0 /\ lin'[g].bot >= 0 /\ ctr'[g] <= lin'[g].lines
      <4>1. CASE g = f
        BY <2>3, <2>9, <3>3, <4>1 DEF Fits
      <4>2. CASE g # f
        BY <2>9, <3>3, <4>2 DEF IInv, TypeOK
      <4> QED
        BY <4>1, <4>2
    <3> QED
      BY <2>2, <2>5, <2>6, <2>7, <3>1, <3>2, <3>3 DEF IInv, TypeOK
  <2>11. CounterIsLine'
    <3>1. SUFFICES ASSUME NEW g \in Files, stream'[g], ctr'[g] > 0
                   PROVE  IF needsTop'[g] THEN at'[g] = 0 /\ ctr'[g] = 1
                          ELSE at'[g] = lin'[g].top + ctr'[g] - 1
      BY DEF CounterIsLine
    <3>2. CASE g = f
      <4>1. w.after.ok
        BY <2>3, <2>9, <3>1, <3>2
      <4>2. ctr[f] # 0 /\ w.after.at = w.after.lin.top + w.after.ctr - 1
        BY <2>3, <4>1 DEF IInv, TypeOK
      <4>3. ~needsTop'[g] /\ at'[g] = w.after.at
        BY <2>4, <2>9, <3>2, <4>2
      <4> QED
        BY <2>9, <3>2, <4>2, <4>3
    <3>3. CASE g # f
      BY <2>2, <2>9, <3>1, <3>3 DEF IInv, CounterIsLine
    <3> QED
      BY <3>2, <3>3
  <2>12. NoStreamNoPage'
    <3>1. SUFFICES ASSUME NEW g \in Files, mode'[g] = "OUTPUT", ~stream'[g]
                   PROVE  ctr'[g] = 0
      BY DEF NoStreamNoPage
    <3>2. CASE g = f
      <4>1. ~w.after.ok
        BY <2>2, <2>3, <3>1, <3>2
      <4> QED
        BY <2>3, <2>8, <2>9, <3>2, <4>1
    <3>3. CASE g # f
      BY <2>2, <2>9, <3>1, <3>3 DEF IInv, NoStreamNoPage
    <3> QED
      BY <3>2, <3>3
  <2> QED
    BY <2>10, <2>11, <2>12 DEF IInv
<1> QED
  BY <1>1, <1>2 DEF CobWrite

\* The invariant is inductive.
LEMMA InvariantKept == IInv /\ [Next]_vars => IInv'
<1> SUFFICES ASSUME IInv, [Next]_vars
             PROVE  IInv'
  OBVIOUS
<1>1. CASE Next
  BY <1>1, OpenKeeps, CloseKeeps, OthersKeep, WriteKeeps DEF Next
<1>2. CASE UNCHANGED vars
  BY <1>2 DEF vars, page, IInv, TypeOK, CounterIsLine, NoStreamNoPage
<1> QED
  BY <1>1, <1>2

\* It holds when the run unit begins.
LEMMA InvariantBegins == Init => IInv
<1> SUFFICES ASSUME Init
             PROVE  IInv
  OBVIOUS
<1>1. TypeOK
  <2>1. lin \in [Files -> Layout] /\ \A f \in Files : ctr[f] = 0
    <3>1. [lines |-> 0, foot |-> 0, top |-> 0, bot |-> 0] \in Layout
      BY DEF Layout
    <3>2. PICK zero \in Layout : zero = [lines |-> 0, foot |-> 0, top |-> 0, bot |-> 0]
      BY <3>1
    <3>3. lin = [f \in Files |-> zero] /\ ctr = [f \in Files |-> 0]
      BY <3>2 DEF Init
    <3>4. lin \in [Files -> Layout]
      BY <3>2, <3>3
    <3>5. \A f \in Files : ctr[f] = 0
      BY <3>3
    <3> QED
      BY <3>4, <3>5
  <2>2. /\ items \in [Files -> Geometries] /\ ctr \in [Files -> Nat] /\ at \in [Files -> Int]
        /\ mode \in [Files -> {"CLOSED", "OUTPUT"}]
        /\ stream \in [Files -> BOOLEAN] /\ needsTop \in [Files -> BOOLEAN]
        /\ eop \in BOOLEAN /\ alive \in BOOLEAN /\ due \in BOOLEAN
    <3>1. /\ items \in [Files -> Geometries] /\ ctr = [f \in Files |-> 0] /\ at = [f \in Files |-> 0]
          /\ mode = [f \in Files |-> "CLOSED"] /\ stream = [f \in Files |-> FALSE]
          /\ needsTop = [f \in Files |-> FALSE] /\ eop = FALSE /\ alive = TRUE /\ due = FALSE
      BY DEF Init
    <3>2. 0 \in Nat /\ 0 \in Int
      OBVIOUS
    <3> QED
      BY <3>1, <3>2
  <2>3. status \in Statuses /\ exception \in {"none", "EOP", "error"}
    BY DEF Init, Statuses
  <2>4. printed \in [line : Int, top : Int, lines : Int, turned : BOOLEAN]
    BY DEF Init, Nowhere
  <2> QED
    BY <2>1, <2>2, <2>3, <2>4 DEF TypeOK
<1>2. CounterIsLine /\ NoStreamNoPage
  BY DEF Init, CounterIsLine, NoStreamNoPage
<1> QED
  BY <1>1, <1>2 DEF IInv

\* The counter stays in its page, for any layouts.
THEOREM Inductive == Spec => []IInv
<1>1. Init => IInv
  BY InvariantBegins
<1>2. IInv /\ [Next]_vars => IInv'
  BY InvariantKept
<1> QED
  BY <1>1, <1>2, PTL DEF Spec

\* Types, and a LINAGE-COUNTER that is never past the body of a page that can be.
THEOREM TypeCorrect == Spec => []TypeOK
<1>1. IInv => TypeOK
  BY DEF IInv
<1> QED
  BY <1>1, Inductive, PTL

\* LINAGE-COUNTER tells where the paper stands.
THEOREM CounterKept == Spec => []CounterIsLine
<1>1. IInv => CounterIsLine
  BY DEF IInv
<1> QED
  BY <1>1, Inductive, PTL

-----------------------------------------------------------------------------
(* What a WRITE prints, and the end of page. *)

\* The last record that was written stands in its body, or above it if it turned the page.
PrintedInBody ==
  \/ printed = Nowhere \/ status # "00"
  \/ printed.line \in printed.top..printed.top + printed.lines - 1
  \/ printed.turned /\ printed.line = printed.top - 1

\* Each statement keeps it: a WRITE by what lineseq_write prints, an assignment by leaving
\* what was printed.
LEMMA PrintedKept == IInv /\ PrintedInBody /\ [Next]_vars => PrintedInBody'
<1> SUFFICES ASSUME IInv, PrintedInBody, [Next]_vars
             PROVE  PrintedInBody'
  OBVIOUS
<1>1. ASSUME UNCHANGED <<printed, status>>
      PROVE  PrintedInBody'
  BY <1>1 DEF PrintedInBody
<1>2. ASSUME NEW f \in Files, CobOpen(f) \/ CobClose(f) \/ CobWriteDenied(f)
      PROVE  PrintedInBody'
  BY <1>2 DEF CobOpen, CobClose, CobWriteDenied, PrintedInBody
<1>3. ASSUME NEW f \in Files, NEW g \in Geometries, MoveItems(f, g)
      PROVE  PrintedInBody'
  BY <1>1, <1>3 DEF MoveItems, paper
<1>4. ASSUME NEW f \in Files, NEW adv \in Advances, NEW asked \in BOOLEAN, CobWrite(f, adv, asked)
      PROVE  PrintedInBody'
  <2>1. CASE Faults(f, adv) /\ alive' = FALSE /\ UNCHANGED <<page, eop, status, exception, paper, due>>
    BY <1>1, <2>1 DEF paper
  <2>2. CASE ~Faults(f, adv)
    <3>1. PICK w : w = LineseqWrite(f, adv, asked)
      OBVIOUS
    <3>2. mode[f] = "OUTPUT"
      BY <1>4 DEF CobWrite
    <3>3. /\ w.before \in Page
          /\ w.after.ok => /\ w.before.ok
                           /\ \/ w.before.at \in w.before.lin.top .. w.before.lin.top + w.before.lin.lines - 1
                              \/ w.before.turned /\ w.before.at = w.before.lin.top - 1
      BY <2>2, <3>1, <3>2, Written
    <3>4. status' = IF w.after.ok THEN "00" ELSE "57"
      BY <1>4, <2>2, <3>1 DEF CobWrite, SaveStatus
    <3>5. w.before.ok => printed' = [line |-> w.before.at, top |-> w.before.lin.top, lines |-> w.before.lin.lines,
                                     turned |-> w.before.turned]
      BY <1>4, <2>2, <3>1 DEF CobWrite
    <3>6. CASE ~w.after.ok
      BY <3>4, <3>6 DEF PrintedInBody
    <3>7. CASE w.after.ok
      BY <3>3, <3>5, <3>7 DEF PrintedInBody
    <3> QED
      BY <3>6, <3>7
  <2> QED
    BY <1>4, <2>1, <2>2 DEF CobWrite
<1>5. CASE UNCHANGED vars
  BY <1>1, <1>5 DEF vars, paper
<1>6. CASE Next
  BY <1>2, <1>3, <1>4, <1>6 DEF Next
<1> QED
  BY <1>5, <1>6

\* No record is printed in a margin, except the line that turns the page.
THEOREM InBody == Spec => RecordsInBody
<1>1. Init => PrintedInBody
  BY DEF Init, PrintedInBody
<1>2. IInv /\ PrintedInBody /\ [Next]_vars => PrintedInBody'
  BY PrintedKept
<1>3. PrintedInBody' =>
        [ \/ printed' = Nowhere \/ status' # "00"
          \/ printed'.line \in printed'.top..printed'.top + printed'.lines - 1
          \/ printed'.turned /\ printed'.line = printed'.top - 1 ]_vars
  BY DEF PrintedInBody
<1> QED
  BY <1>1, <1>2, <1>3, Inductive, PTL DEF Spec, RecordsInBody

\* With no end of page left over, a WRITE tells the end of its page, and nothing else tells one.
LEMMA EopStep ==
  ASSUME IInv, [Next]_vars, alive', items' = items, ~eop
  PROVE  (exception' = "EOP" <=> due' /\ status' = "00") \/ UNCHANGED vars
<1>1. ASSUME NEW f \in Files, CobOpen(f) \/ CobClose(f) \/ CobWriteDenied(f)
      PROVE  exception' # "EOP" /\ due' = FALSE
  BY <1>1 DEF CobOpen, CobClose, CobWriteDenied, SaveStatus
<1>2. ASSUME NEW f \in Files, NEW g \in Geometries, MoveItems(f, g)
      PROVE  FALSE
  BY <1>2 DEF MoveItems, IInv, TypeOK
<1>3. ASSUME NEW f \in Files, NEW adv \in Advances, NEW asked \in BOOLEAN, CobWrite(f, adv, asked)
      PROVE  exception' = "EOP" <=> due' /\ status' = "00"
  <2>1. ~Faults(f, adv)
    BY <1>3 DEF CobWrite
  <2>2. PICK w : w = LineseqWrite(f, adv, asked)
    OBVIOUS
  <2>3. mode[f] = "OUTPUT"
    BY <1>3 DEF CobWrite
  <2>4. w.after.ok => /\ stream[f] /\ ctr[f] > 0
                      /\ w.after.eop <=> (adv.lines # PAGE /\ EndsPage(lin[f], ctr[f] + adv.lines, asked))
    BY <2>1, <2>2, <2>3, Written
  <2>5. /\ w.after.ok => status' = "00" /\ (exception' = "EOP" <=> w.after.eop)
        /\ ~w.after.ok => status' = "57" /\ exception' = "error"
    BY <1>3, <2>1, <2>2 DEF CobWrite, SaveStatus
  <2>6. due' = IsDue(f, adv, asked)
    BY <1>3, <2>1 DEF CobWrite
  <2>7. CASE ~w.after.ok
    BY <2>5, <2>7
  <2>8. CASE w.after.ok
    <3>1. BodyLine(f) = ctr[f]
      <4>1. /\ needsTop[f] => ctr[f] = 1
            /\ ~needsTop[f] => at[f] = lin[f].top + ctr[f] - 1
        BY <2>4, <2>8 DEF IInv, CounterIsLine
      <4>2. lin[f].top \in Int /\ ctr[f] \in Int
        BY DEF IInv, TypeOK, Layout
      <4> QED
        BY <4>1, <4>2 DEF BodyLine
    <3>2. IsDue(f, adv, asked) <=> adv.lines # PAGE /\ EndsPage(lin[f], ctr[f] + adv.lines, asked)
      BY <3>1 DEF IsDue, EndsPage
    <3> QED
      BY <2>4, <2>5, <2>6, <2>8, <3>2
  <2> QED
    BY <2>7, <2>8
<1>4. CASE Next
  BY <1>1, <1>2, <1>3, <1>4 DEF Next
<1> QED
  BY <1>4

\* EC-I-O-EOP is raised exactly when it is due.
THEOREM EopTold == Spec => EopWhenDue
<1>1. IInv /\ [Next]_vars =>
        [ alive' /\ items' = items /\ ~eop => (exception' = "EOP" <=> due' /\ status' = "00") ]_vars
  BY EopStep
<1> QED
  BY <1>1, Inductive, PTL DEF Spec, EopWhenDue
=============================================================================
