------------------------------ MODULE MCLinage ------------------------------
EXTENDS Linage, TLC

G(lines, foot, top, bot) == [lines |-> lines, foot |-> foot, top |-> top, bot |-> bot]

\* With and without margins and footing, a page of one line, and items no page can have.
MCGeometries == {G(3, 2, 1, 2), G(2, 0, 0, 0), G(1, 1, 2, 0), G(2, 3, 1, 1), G(0, 0, 0, 0), G(1, 0, 1, -1)}
MCAdvances == [phrase : {"BEFORE", "AFTER"}, lines : {PAGE, 1, 2, 3}]
\* What the next statement depends on: not what the last one did and said.
MCView == <<items, lin, ctr, mode, stream, needsTop, eop, alive, at>>
MCSymmetry == Permutations(Files)
=============================================================================
