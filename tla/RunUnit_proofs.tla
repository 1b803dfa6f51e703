---------------------------- MODULE RunUnit_proofs ----------------------------
(***************************************************************************)
(* Proofs about RunUnit for any procedures, priorities and depths of the   *)
(* control stack.  What can be on the stack, and where, is Shaped; the     *)
(* postponed unloading and the state of the run unit are read off the kind *)
(* of its second and of its last frame.  The second part is about the two  *)
(* lists of procedures and about the loops that walk them while the        *)
(* procedures change them: LInv.                                           *)
(***************************************************************************)
EXTENDS RunUnit, SequenceTheorems, FiniteSetTheorems, TLAPS

\* Frame f can be at place i of a control stack, where the frame before it is of kind
\* before and the second one of kind second.
Fits(f, i, before, second) ==
  /\ "kind" \in DOMAIN f
  /\ f.kind = "host" => i = 1
  /\ f.kind = "checked" => i = 2 /\ f = Checked
  /\ f.kind = "program" => i = 2 \/ (i = 3 /\ second = "checked")
  /\ f.kind = "exit proc" => before = "exits"
  /\ f.kind = "error proc" => before = "errors"
  /\ f.kind \in {"exits", "terminated"} /\ f.ends = "tidy" => i = 2
  /\ f.kind = "exits" => "ends" \in DOMAIN f

Before(s, i) == IF i = 1 THEN "none" ELSE s[i - 1].kind
Second(s, i) == IF i < 3 THEN "none" ELSE s[2].kind
FrameOK(s, i) == Fits(s[i], i, Before(s, i), Second(s, i))

TerminatedOnTop(s) == \A i \in 1..Len(s) : s[i].kind = "terminated" => i = Len(s)
OneErrorLoop(s) == \A i, j \in 1..Len(s) : s[i].kind = "errors" /\ s[j].kind = "errors" => i = j

Shaped(s) ==
  /\ s \in Seq(ToSet(s)) /\ Len(s) > 0
  /\ s[1].kind = "host"
  /\ \A i \in 1..Len(s) : FrameOK(s, i)
  /\ TerminatedOnTop(s)
  /\ OneErrorLoop(s)

HasErrorLoop(s) == \E i \in 1..Len(s) : s[i].kind = "errors"
UnderCheck(s) == Len(s) > 1 /\ s[2].kind = "checked"
TopKind(s) == s[Len(s)].kind

\* Frames that may be pushed on s.
Pushable(s, e) ==
  /\ "kind" \in DOMAIN e /\ e.kind # "host" /\ TopKind(s) # "terminated"
  /\ e.kind = "checked" => Len(s) = 1 /\ e = Checked
  /\ e.kind = "program" => Len(s) = 1 \/ (Len(s) = 2 /\ s[2].kind = "checked")
  /\ e.kind = "exit proc" => TopKind(s) = "exits"
  /\ e.kind = "error proc" => TopKind(s) = "errors"
  /\ e.kind \in {"exits", "terminated"} /\ e.ends = "tidy" => Len(s) = 1
  /\ e.kind = "errors" => ~HasErrorLoop(s)
  /\ e.kind = "exits" => "ends" \in DOMAIN e

\* Frame g can stand where f stands.
Alike(f, g) ==
  /\ "kind" \in DOMAIN g /\ g.kind = f.kind
  /\ f.kind = "checked" => g = f
  /\ f.kind = "exits" => "ends" \in DOMAIN g
  /\ f.kind \in {"exits", "terminated"} => g.ends = f.ends

LEMMA PushProps ==
  ASSUME NEW A, NEW s \in Seq(A), NEW e
  PROVE  /\ Append(s, e) \in Seq(ToSet(Append(s, e))) /\ Len(Append(s, e)) = Len(s) + 1
         /\ Append(s, e)[Len(s) + 1] = e /\ \A i \in 1..Len(s) : Append(s, e)[i] = s[i]
  <1>1. s \in Seq(A \cup {e}) /\ e \in A \cup {e}
    OBVIOUS
  <1>2. PICK t : t = Append(s, e)
    OBVIOUS
  <1>3. t \in Seq(A \cup {e}) /\ Len(t) = Len(s) + 1 /\ t[Len(s) + 1] = e /\ \A i \in 1..Len(s) : t[i] = s[i]
    BY <1>1, <1>2
  <1>4. t \in Seq(ToSet(t))
    BY <1>3 DEF ToSet
  <1> QED BY <1>2, <1>3, <1>4

LEMMA CutProps ==
  ASSUME NEW A, NEW s \in Seq(A), NEW n \in 0..Len(s)
  PROVE  /\ SubSeq(s, 1, n) \in Seq(ToSet(SubSeq(s, 1, n))) /\ Len(SubSeq(s, 1, n)) = n
         /\ \A i \in 1..n : SubSeq(s, 1, n)[i] = s[i]
  <1>1. PICK t : t = SubSeq(s, 1, n)
    OBVIOUS
  <1>2. t \in Seq(A) /\ Len(t) = n /\ \A i \in 1..n : t[i] = s[i]
    <2>1. \A i \in 1..n : s[i] \in A
      OBVIOUS
    <2>2. n \in Int /\ Len(s) \in Nat
      OBVIOUS
    <2> QED BY <1>1, <2>1, <2>2, SubSeqProperties
  <1>3. t \in Seq(ToSet(t))
    BY <1>2 DEF ToSet
  <1> QED BY <1>1, <1>2, <1>3

\* A stack that begins like s.
LEMMA SamePlace ==
  ASSUME NEW s, NEW t, NEW n \in Nat, NEW i \in 1..n, \A k \in 1..n : t[k] = s[k], FrameOK(s, i)
  PROVE  FrameOK(t, i)
  <1>1. t[i] = s[i]
    OBVIOUS
  <1>2. Before(t, i) = Before(s, i)
    <2>1. CASE i = 1
      BY <2>1 DEF Before
    <2>2. CASE i # 1
      <3>1. i - 1 \in 1..n
        BY <2>2
      <3> QED BY <3>1, <2>2 DEF Before
    <2> QED BY <2>1, <2>2
  <1>3. Second(t, i) = Second(s, i)
    <2>1. CASE i < 3
      BY <2>1 DEF Second
    <2>2. CASE ~(i < 3)
      <3>1. 2 \in 1..n
        BY <2>2
      <3> QED BY <3>1, <2>2 DEF Second
    <2> QED BY <2>1, <2>2
  <1> QED BY <1>1, <1>2, <1>3 DEF FrameOK

LEMMA Pushed ==
  ASSUME NEW s, Shaped(s), NEW e, Pushable(s, e)
  PROVE  /\ Shaped(Append(s, e))
         /\ HasErrorLoop(Append(s, e)) => HasErrorLoop(s) \/ e.kind = "errors"
         /\ TopKind(Append(s, e)) = e.kind /\ Append(s, e)[Len(Append(s, e))] = e
         /\ Len(Append(s, e)) = Len(s) + 1
         /\ UnderCheck(Append(s, e)) <=> UnderCheck(s) \/ e.kind = "checked"
  <1>1. PICK t : t = Append(s, e)
    OBVIOUS
  <1>2. /\ t \in Seq(ToSet(t)) /\ Len(t) = Len(s) + 1 /\ Len(s) \in Nat /\ Len(s) > 0
        /\ t[Len(s) + 1] = e /\ \A i \in 1..Len(s) : t[i] = s[i]
    BY <1>1, PushProps DEF Shaped
  <1>a. PICK n \in Nat : n = Len(s)
    BY <1>2
  <1>b. /\ n > 0 /\ Len(t) = n + 1 /\ t[n + 1] = e /\ \A i \in 1..n : t[i] = s[i]
        /\ n + 1 - 1 = n /\ 1 \in 1..n /\ n \in 1..n
    BY <1>2, <1>a
  <1>e. Len(s) = 1 => n + 1 = 2 /\ ~(n > 1)
    BY <1>a
  <1>f. Len(s) = 2 => n + 1 = 3 /\ Second(t, n + 1) = s[2].kind
    BY <1>a, <1>b DEF Second
  <1>3. \A i \in 1..n : FrameOK(t, i)
    BY <1>2, <1>a, <1>b, SamePlace DEF Shaped
  <1>4. FrameOK(t, n + 1)
    <2>1. Before(t, n + 1) = TopKind(s)
      BY <1>a, <1>b DEF Before, TopKind
    <2>3. Fits(e, n + 1, TopKind(s), Second(t, n + 1))
      <3>1. PICK i : i = n + 1
        OBVIOUS
      <3>2. (Len(s) = 1 => i = 2) /\ (Len(s) = 2 => i = 3 /\ Second(t, i) = s[2].kind)
        BY <1>e, <1>f, <3>1
      <3>3. Fits(e, i, TopKind(s), Second(t, i))
        BY <3>2, Zenon DEF Fits, Pushable
      <3> QED BY <3>1, <3>3
    <2> QED BY <1>b, <2>1, <2>3 DEF FrameOK
  <1>5. \A i \in 1..(n + 1) : i \in 1..n \/ i = n + 1
    OBVIOUS
  <1>6. TerminatedOnTop(t)
    <2>1. \A i \in 1..n : s[i].kind # "terminated"
      BY <1>a DEF Shaped, TerminatedOnTop, Pushable, TopKind
    <2> QED BY <1>b, <1>5, <2>1 DEF TerminatedOnTop
  <1>7. OneErrorLoop(t)
    <2>1. \A i, j \in 1..n : s[i].kind = "errors" /\ s[j].kind = "errors" => i = j
      BY <1>a DEF Shaped, OneErrorLoop
    <2>2. e.kind = "errors" => \A i \in 1..n : s[i].kind # "errors"
      BY <1>a DEF Pushable, HasErrorLoop
    <2> QED BY <1>b, <1>5, <2>1, <2>2 DEF OneErrorLoop
  <1>8. Shaped(t)
    <2>1. \A i \in 1..Len(t) : FrameOK(t, i)
      BY <1>b, <1>3, <1>4, <1>5
    <2>2. t[1].kind = "host" /\ Len(t) > 0
      BY <1>b DEF Shaped
    <2> QED BY <1>2, <1>6, <1>7, <2>1, <2>2 DEF Shaped
  <1>9. HasErrorLoop(t) => HasErrorLoop(s) \/ e.kind = "errors"
    BY <1>a, <1>b, <1>5 DEF HasErrorLoop
  <1>10. UnderCheck(t) <=> UnderCheck(s) \/ e.kind = "checked"
    <2>1. CASE n = 1
      <3>1. e.kind = "checked" <=> UnderCheck(t)
        BY <1>b, <2>1 DEF UnderCheck
      <3>2. ~UnderCheck(s)
        BY <1>a, <2>1 DEF UnderCheck
      <3> QED BY <3>1, <3>2
    <2>2. CASE n > 1
      <3>1. e.kind # "checked"
        BY <1>e, <2>2, Zenon DEF Pushable
      <3>2. t[2] = s[2] /\ Len(t) > 1 /\ Len(s) > 1
        BY <1>a, <1>b, <2>2
      <3> QED BY <3>1, <3>2 DEF UnderCheck
    <2> QED BY <1>b, <2>1, <2>2
  <1> QED BY <1>1, <1>a, <1>b, <1>8, <1>9, <1>10 DEF TopKind

LEMMA Cut ==
  ASSUME NEW s, Shaped(s), NEW n \in 1..Len(s)
  PROVE  /\ Shaped(SubSeq(s, 1, n))
         /\ HasErrorLoop(SubSeq(s, 1, n)) => HasErrorLoop(s)
         /\ Len(SubSeq(s, 1, n)) = n
         /\ \A i \in 1..n : SubSeq(s, 1, n)[i] = s[i]
         /\ UnderCheck(SubSeq(s, 1, n)) <=> UnderCheck(s) /\ n > 1
  <1>1. PICK t : t = SubSeq(s, 1, n)
    OBVIOUS
  <1>a. Len(s) \in Nat /\ n \in Nat /\ n \in 0..Len(s) /\ 1 \in 1..n /\ \A i \in 1..n : i \in 1..Len(s)
    BY DEF Shaped
  <1>2. t \in Seq(ToSet(t)) /\ Len(t) = n /\ \A i \in 1..n : t[i] = s[i]
    BY <1>1, <1>a, CutProps DEF Shaped
  <1>3. \A i \in 1..n : FrameOK(t, i)
    BY <1>a, <1>2, SamePlace DEF Shaped
  <1>4. TerminatedOnTop(t)
    <2>1. \A i \in 1..n : s[i].kind = "terminated" => i = n
      <3>1. \A i \in 1..n : i = Len(s) => i = n
        BY <1>a
      <3> QED BY <3>1, <1>a DEF Shaped, TerminatedOnTop
    <2> QED BY <1>2, <2>1 DEF TerminatedOnTop
  <1>5. OneErrorLoop(t)
    <2>1. \A i, j \in 1..n : s[i].kind = "errors" /\ s[j].kind = "errors" => i = j
      BY <1>a DEF Shaped, OneErrorLoop
    <2> QED BY <1>2, <2>1 DEF OneErrorLoop
  <1>6. Shaped(t)
    <2>1. t[1].kind = "host" /\ Len(t) > 0
      BY <1>2, <1>a DEF Shaped
    <2> QED BY <1>2, <1>3, <1>4, <1>5, <2>1 DEF Shaped
  <1>7. HasErrorLoop(t) => HasErrorLoop(s)
    BY <1>2, <1>a DEF HasErrorLoop
  <1>8. UnderCheck(t) <=> UnderCheck(s) /\ n > 1
    <2>1. CASE n > 1
      <3>1. t[2] = s[2] /\ Len(s) > 1
        BY <1>2, <1>a, <2>1
      <3> QED BY <1>2, <2>1, <3>1 DEF UnderCheck
    <2>2. CASE ~(n > 1)
      BY <1>2, <2>2 DEF UnderCheck
    <2> QED BY <2>1, <2>2
  <1> QED BY <1>1, <1>2, <1>6, <1>7, <1>8

LEMMA Popped ==
  ASSUME NEW s, Shaped(s), Len(s) > 1
  PROVE  /\ Shaped(Front(s)) /\ Len(Front(s)) = Len(s) - 1
         /\ \A i \in 1..(Len(s) - 1) : Front(s)[i] = s[i]
         /\ HasErrorLoop(Front(s)) => HasErrorLoop(s) /\ TopKind(s) # "errors"
         /\ TopKind(Front(s)) = s[Len(s) - 1].kind /\ TopKind(Front(s)) # "terminated"
         /\ UnderCheck(Front(s)) <=> UnderCheck(s) /\ Len(s) > 2
  <1>0. PICK m \in Nat : m = Len(s)
    BY DEF Shaped
  <1>1. PICK n \in Nat : n = Len(s) - 1 /\ n \in 1..Len(s) /\ Len(s) \in 1..Len(s) /\ n # Len(s) /\ n \in 1..n
    <2>1. m - 1 \in Nat /\ m - 1 \in 1..m /\ m \in 1..m /\ m - 1 # m /\ m - 1 \in 1..(m - 1)
      BY <1>0
    <2> QED BY <1>0, <2>1
  <1>2. PICK t : t = Front(s)
    OBVIOUS
  <1>a. t = SubSeq(s, 1, n)
    BY <1>1, <1>2 DEF Front
  <1>3. /\ Shaped(t) /\ Len(t) = n /\ (HasErrorLoop(t) => HasErrorLoop(s))
        /\ \A i \in 1..n : t[i] = s[i]
        /\ (UnderCheck(t) <=> UnderCheck(s) /\ n > 1)
    BY <1>1, <1>a, Cut
  <1>5. HasErrorLoop(t) => TopKind(s) # "errors"
    <2> SUFFICES ASSUME HasErrorLoop(t), TopKind(s) = "errors" PROVE FALSE
      OBVIOUS
    <2>1. PICK i \in 1..n : s[i].kind = "errors"
      BY <1>3 DEF HasErrorLoop
    <2>2. i = Len(s)
      BY <1>1, <2>1 DEF Shaped, OneErrorLoop, TopKind
    <2> QED BY <1>1, <2>1, <2>2
  <1>6. TopKind(t) = s[n].kind /\ TopKind(t) # "terminated"
    <2>1. s[n].kind = "terminated" => n = Len(s)
      BY <1>1 DEF Shaped, TerminatedOnTop
    <2> QED BY <1>1, <1>3, <2>1 DEF TopKind
  <1>7. n > 1 <=> Len(s) > 2
    BY <1>1
  <1> QED BY <1>1, <1>2, <1>3, <1>5, <1>6, <1>7

LEMMA TopOf ==
  ASSUME NEW s, Shaped(s)
  PROVE  /\ Len(s) \in Nat /\ Len(s) > 0 /\ Len(s) \in 1..Len(s) /\ Last(s) = s[Len(s)]
         /\ Last(s).kind = TopKind(s) /\ FrameOK(s, Len(s)) /\ "kind" \in DOMAIN Last(s)
         /\ (TopKind(s) = "host" => Len(s) = 1) /\ (Len(s) = 1 => TopKind(s) = "host")
  <1>1. Len(s) \in Nat /\ Len(s) > 0 /\ Len(s) \in 1..Len(s)
    BY DEF Shaped
  <1>2. FrameOK(s, Len(s))
    BY <1>1 DEF Shaped
  <1>3. TopKind(s) = "host" => Len(s) = 1
    BY <1>2, Zenon DEF FrameOK, Fits, TopKind
  <1>4. Len(s) = 1 => TopKind(s) = "host"
    BY Zenon DEF Shaped, TopKind
  <1>5. Last(s) = s[Len(s)]
    BY DEF Last
  <1>6. Last(s).kind = TopKind(s) /\ "kind" \in DOMAIN Last(s)
    BY <1>2, <1>5, Zenon DEF FrameOK, Fits, TopKind
  <1> QED BY <1>1, <1>2, <1>3, <1>4, <1>5, <1>6

LEMMA Replaced ==
  ASSUME NEW s, Shaped(s), Len(s) > 1, NEW e, Alike(Last(s), e)
  PROVE  /\ Shaped(Append(Front(s), e)) /\ Len(Append(Front(s), e)) = Len(s)
         /\ TopKind(Append(Front(s), e)) = TopKind(s)
         /\ HasErrorLoop(Append(Front(s), e)) => HasErrorLoop(s)
         /\ UnderCheck(Append(Front(s), e)) <=> UnderCheck(s)
  <1>0. PICK m \in Nat : m = Len(s) /\ m > 1
    BY DEF Shaped
  <1>1. PICK b : b = Front(s)
    OBVIOUS
  <1>2. PICK n \in Nat : n = Len(s) - 1 /\ n + 1 = Len(s) /\ n > 0
    <2>1. m - 1 \in Nat /\ m - 1 + 1 = m /\ m - 1 > 0
      BY <1>0
    <2> QED BY <1>0, <2>1
  <1>3. /\ Shaped(b) /\ Len(b) = n /\ \A i \in 1..n : b[i] = s[i]
        /\ TopKind(b) = s[n].kind /\ TopKind(b) # "terminated"
        /\ (HasErrorLoop(b) => HasErrorLoop(s) /\ TopKind(s) # "errors")
        /\ (UnderCheck(b) <=> UnderCheck(s) /\ Len(s) > 2)
    BY <1>1, <1>2, Popped
  <1>4. Fits(Last(s), Len(s), Before(s, Len(s)), Second(s, Len(s)))
    BY TopOf DEF FrameOK
  <1>5. Before(s, Len(s)) = TopKind(b)
    <2>1. Len(s) # 1
      BY <1>0
    <2> QED BY <1>2, <1>3, <2>1 DEF Before
  <1>6. Len(s) = 2 => Len(b) = 1
    BY <1>2, <1>3
  <1>7. Len(s) = 3 => Len(b) = 2 /\ Second(s, Len(s)) = b[2].kind
    BY <1>2, <1>3 DEF Second
  <1>8. Len(s) # 1
    BY <1>0
  <1>9. Pushable(b, e)
    <2>1. TopKind(s) = e.kind /\ Last(s).kind = e.kind
      BY TopOf, Zenon DEF Alike
    <2>2. e.kind = "errors" => ~HasErrorLoop(b)
      BY <1>3, <2>1, Zenon
    <2> QED BY <1>3, <1>4, <1>5, <1>6, <1>7, <1>8, <2>1, <2>2, Zenon DEF Fits, Alike, Pushable
  <1>10. /\ Shaped(Append(b, e)) /\ Len(Append(b, e)) = Len(b) + 1 /\ TopKind(Append(b, e)) = e.kind
         /\ (HasErrorLoop(Append(b, e)) => HasErrorLoop(b) \/ e.kind = "errors")
         /\ (UnderCheck(Append(b, e)) <=> UnderCheck(b) \/ e.kind = "checked")
    BY <1>3, <1>9, Pushed, Zenon
  <1>11. e.kind = TopKind(s)
    BY TopOf, Zenon DEF Alike
  <1>12. e.kind = "errors" => HasErrorLoop(s)
    BY <1>11, TopOf DEF HasErrorLoop, TopKind
  <1>13. UnderCheck(Append(b, e)) <=> UnderCheck(s)
    <2>1. CASE Len(s) > 2
      <3>1. e.kind # "checked"
        <4>1. Len(s) # 2
          BY <1>0, <2>1
        <4>2. Last(s).kind = e.kind
          BY <1>11, TopOf
        <4> QED BY <4>1, <4>2, <1>4, Zenon DEF Fits
      <3> QED BY <1>3, <1>10, <2>1, <3>1, Zenon
    <2>2. CASE ~(Len(s) > 2)
      <3>1. Len(s) = 2
        BY <1>0, <2>2
      <3>2. UnderCheck(s) <=> TopKind(s) = "checked"
        BY <3>1 DEF UnderCheck, TopKind
      <3> QED BY <1>3, <1>10, <1>11, <2>2, <3>2, Zenon
    <2> QED BY <2>1, <2>2
  <1>14. Len(Append(b, e)) = Len(s)
    BY <1>2, <1>3, <1>10
  <1> QED BY <1>1, <1>3, <1>10, <1>11, <1>12, <1>13, <1>14, Zenon

\* Freed list nodes change what loops point to, and nothing else on the stack.
LEMMA UnlinkedShaped ==
  ASSUME NEW p, Shaped(stack)
  PROVE  /\ Shaped(UnlinkedAll(p)) /\ Len(UnlinkedAll(p)) = Len(stack)
         /\ TopKind(UnlinkedAll(p)) = TopKind(stack)
         /\ HasErrorLoop(UnlinkedAll(p)) <=> HasErrorLoop(stack)
         /\ UnderCheck(UnlinkedAll(p)) <=> UnderCheck(stack)
  <1>1. PICK n \in Nat : n = Len(stack) /\ n > 0 /\ n \in 1..n /\ 1 \in 1..n
    BY DEF Shaped
  <1>2. PICK t : t = UnlinkedAll(p)
    OBVIOUS
  <1>3. DOMAIN stack = 1..n
    BY <1>1 DEF Shaped
  <1>4. t = [i \in 1..n |-> Unlinked(stack[i], p)]
    BY <1>2, <1>3 DEF UnlinkedAll
  <1>5. Len(t) = n /\ t \in Seq(ToSet(t)) /\ \A i \in 1..n : t[i] = Unlinked(stack[i], p)
    <2>1. DOMAIN t = 1..n /\ \A i \in 1..n : t[i] \in ToSet(t)
      BY <1>4 DEF ToSet
    <2>2. t = [i \in 1..n |-> t[i]]
      BY <1>4
    <2>3. t \in Seq(ToSet(t))
      BY <2>1, <2>2
    <2> QED BY <1>4, <2>1, <2>3
  <1>6. \A i \in 1..n : FrameOK(stack, i)
    BY <1>1 DEF Shaped
  <1>7. \A i \in 1..n : Alike(stack[i], t[i])
    <2> SUFFICES ASSUME NEW i \in 1..n PROVE Alike(stack[i], t[i])
      OBVIOUS
    <2>1. "kind" \in DOMAIN stack[i] /\ (stack[i].kind = "exits" => "ends" \in DOMAIN stack[i])
      BY <1>6, Zenon DEF FrameOK, Fits
    <2>2. CASE stack[i].kind # "exits"
      <3>1. t[i] = stack[i]
        BY <1>5, <2>2 DEF Unlinked
      <3> QED BY <2>1, <2>2, <3>1, Zenon DEF Alike
    <2>3. CASE stack[i].kind = "exits"
      <3>1. t[i] = [stack[i] EXCEPT !.at = IF @ = p THEN FREED ELSE @, !.moved = @ \cup {p}]
        BY <1>5, <2>3, Zenon DEF Unlinked
      <3>2. t[i].kind = stack[i].kind /\ t[i].ends = stack[i].ends /\ "kind" \in DOMAIN t[i] /\ "ends" \in DOMAIN t[i]
        BY <2>1, <2>3, <3>1
      <3> QED BY <2>3, <3>2, Zenon DEF Alike
    <2> QED BY <2>2, <2>3
  <1>8. \A i \in 1..n : t[i].kind = stack[i].kind
    BY <1>7 DEF Alike
  <1>9. \A i \in 1..n : FrameOK(t, i)
    <2> SUFFICES ASSUME NEW i \in 1..n PROVE FrameOK(t, i)
      OBVIOUS
    <2>1. Before(t, i) = Before(stack, i)
      <3>1. i # 1 => i - 1 \in 1..n
        OBVIOUS
      <3> QED BY <1>8, <3>1 DEF Before
    <2>2. Second(t, i) = Second(stack, i)
      <3>1. ~(i < 3) => 2 \in 1..n
        OBVIOUS
      <3> QED BY <1>8, <3>1 DEF Second
    <2>3. Fits(stack[i], i, Before(stack, i), Second(stack, i)) /\ Alike(stack[i], t[i])
      BY <1>6, <1>7 DEF FrameOK
    <2>4. Fits(t[i], i, Before(stack, i), Second(stack, i))
      BY <2>3, Zenon DEF Fits, Alike
    <2> QED BY <2>1, <2>2, <2>4, Zenon DEF FrameOK
  <1>10. TerminatedOnTop(t) /\ OneErrorLoop(t)
    BY <1>1, <1>5, <1>8 DEF Shaped, TerminatedOnTop, OneErrorLoop
  <1>11. Shaped(t)
    <2>1. t[1].kind = "host"
      BY <1>1, <1>8 DEF Shaped
    <2> QED BY <1>1, <1>5, <1>9, <1>10, <2>1 DEF Shaped
  <1>12. TopKind(t) = TopKind(stack)
    BY <1>1, <1>5, <1>8 DEF TopKind
  <1>13. HasErrorLoop(t) <=> HasErrorLoop(stack)
    BY <1>1, <1>5, <1>8 DEF HasErrorLoop
  <1>14. UnderCheck(t) <=> UnderCheck(stack)
    <2>1. n > 1 => 2 \in 1..n
      OBVIOUS
    <2> QED BY <1>1, <1>5, <1>8, <2>1 DEF UnderCheck
  <1> QED BY <1>1, <1>2, <1>5, <1>11, <1>12, <1>13, <1>14

-----------------------------------------------------------------------------
\* What the state of the run unit is while control is in a frame of the given kind.
Life(kind, init, term, u) ==
  /\ kind \notin {"host", "terminated"} => init = TRUE /\ term = 0
  /\ kind = "host" /\ init = TRUE => term = 0
  /\ kind = "terminated" => init = FALSE \/ u = "requested"

LoopOK == HasErrorLoop(stack) => active = TRUE
UnloadOK ==
  /\ unload \in {"immediate", "postpone", "requested"}
  /\ unload # "immediate" <=> UnderCheck(stack)
JumpOK == jump \in {[set |-> FALSE, to |-> 0], [set |-> TRUE, to |-> 2]}
LifeOK == mode = "running" => Life(TopKind(stack), initialized, terminations, unload)

\* The inductive invariant.
IInv ==
  /\ initialized \in BOOLEAN /\ active \in BOOLEAN
  /\ Shaped(stack) /\ LoopOK /\ UnloadOK /\ JumpOK /\ LifeOK

\* Modules are unloaded when nothing postpones it.
UnloadStep == initialized = TRUE /\ initialized' = FALSE => unload' = "immediate"

LEMMA InitIInv == Init => IInv
  <1> SUFFICES ASSUME Init PROVE IInv
    OBVIOUS
  <1>1. stack = <<Host>> /\ Len(stack) = 1 /\ stack[1] = Host /\ stack \in Seq({Host}) /\ ToSet(stack) = {Host}
    BY DEF Init, ToSet
  <1>2. stack[1].kind = "host" /\ "kind" \in DOMAIN stack[1]
    BY <1>1 DEF Host
  <1>3. FrameOK(stack, 1)
    BY <1>2 DEF FrameOK, Fits
  <1>4. Shaped(stack)
    BY <1>1, <1>2, <1>3 DEF Shaped, TerminatedOnTop, OneErrorLoop
  <1>5. LoopOK
    BY <1>1, <1>2 DEF LoopOK, HasErrorLoop
  <1>6. UnloadOK
    BY <1>1 DEF UnloadOK, UnderCheck, Init
  <1>7. JumpOK /\ LifeOK
    BY <1>1, <1>2 DEF JumpOK, LifeOK, Life, TopKind, Init
  <1> QED BY <1>4, <1>5, <1>6, <1>7 DEF IInv, Init

\* Two frames pushed one after the other.
LEMMA TwoPushed ==
  ASSUME NEW A, NEW s \in Seq(A), NEW a, NEW b
  PROVE  s \o <<a, b>> = Append(Append(s, a), b)
  <1>1. s \in Seq(A \cup {a, b}) /\ a \in A \cup {a, b} /\ b \in A \cup {a, b}
    OBVIOUS
  <1>2. <<a, b>> = Append(<<a>>, b) /\ <<a>> \in Seq(A \cup {a, b})
    OBVIOUS
  <1> QED BY <1>1, <1>2

LEMMA StutterStep == IInv /\ UNCHANGED vars => IInv' /\ UnloadStep
  BY DEF IInv, LoopOK, UnloadOK, JumpOK, LifeOK, UnloadStep, vars

\* Control is in a frame of this kind.
LEMMA At ==
  ASSUME IInv, NEW k, Running(k)
  PROVE  /\ mode = "running" /\ TopKind(stack) = k /\ Top = stack[Len(stack)] /\ Top = Last(stack)
         /\ Life(k, initialized, terminations, unload)
         /\ Shaped(stack) /\ Len(stack) \in Nat /\ Len(stack) > 0
         /\ (k = "host" => Len(stack) = 1) /\ (k # "host" => Len(stack) > 1)
         /\ "kind" \in DOMAIN Top /\ Top.kind = k
  <1>1. Shaped(stack) /\ LifeOK
    BY DEF IInv
  <1>2. Top = Last(stack) /\ Top.kind = k /\ mode = "running"
    BY DEF Top, Running
  <1>3. TopKind(stack) = k
    BY <1>1, <1>2, TopOf
  <1>4. /\ Len(stack) \in Nat /\ Len(stack) > 0 /\ Last(stack) = stack[Len(stack)] /\ "kind" \in DOMAIN Last(stack)
        /\ (k = "host" => Len(stack) = 1) /\ (Len(stack) = 1 => k = "host")
    BY <1>1, <1>3, TopOf
  <1>5. k # "host" => Len(stack) > 1
    <2>1. PICK n \in Nat : n = Len(stack) /\ n > 0
      BY <1>4
    <2>2. n = 1 \/ n > 1
      BY <2>1
    <2> QED BY <1>4, <2>1, <2>2
  <1> QED BY <1>1, <1>2, <1>3, <1>4, <1>5 DEF LifeOK

LEMMA CobInitStep == IInv /\ CobInit => IInv' /\ UnloadStep
  <1> SUFFICES ASSUME IInv, CobInit PROVE IInv' /\ UnloadStep
    OBVIOUS
  <1>1. TopKind(stack) = "host"
    BY At DEF CobInit
  <1>2. LifeOK'
    BY <1>1 DEF CobInit, LifeOK, Life
  <1> QED BY <1>2 DEF IInv, CobInit, LoopOK, UnloadOK, JumpOK, UnloadStep

LEMMA CobCallStep == IInv /\ CobCall => IInv' /\ UnloadStep
  <1> SUFFICES ASSUME IInv, CobCall PROVE IInv' /\ UnloadStep
    OBVIOUS
  <1>1. Len(stack) = 1 /\ TopKind(stack) = "host" /\ Shaped(stack) /\ initialized = TRUE /\ terminations = 0
    BY At DEF CobCall, Life, IInv
  <1>2. Program.kind = "program" /\ "kind" \in DOMAIN Program
    BY DEF Program
  <1>3. Pushable(stack, Program)
    BY <1>1, <1>2 DEF Pushable
  <1>4. /\ Shaped(stack') /\ (HasErrorLoop(stack') => HasErrorLoop(stack))
        /\ TopKind(stack') = "program" /\ (UnderCheck(stack') <=> UnderCheck(stack))
    BY <1>1, <1>2, <1>3, Pushed DEF CobCall
  <1> QED BY <1>1, <1>4 DEF IInv, CobCall, handlers, jumps, LoopOK, UnloadOK, JumpOK, LifeOK, Life, UnloadStep

LEMMA CheckedCallStep == IInv /\ CobCallWithExceptionCheck => IInv' /\ UnloadStep
  <1> SUFFICES ASSUME IInv, CobCallWithExceptionCheck PROVE IInv' /\ UnloadStep
    OBVIOUS
  <1>1. Len(stack) = 1 /\ TopKind(stack) = "host" /\ Shaped(stack) /\ initialized = TRUE /\ terminations = 0
    BY At DEF CobCallWithExceptionCheck, Life, IInv
  <1>2. /\ Program.kind = "program" /\ "kind" \in DOMAIN Program
        /\ Checked.kind = "checked" /\ "kind" \in DOMAIN Checked
    BY DEF Program, Checked
  <1>3. Pushable(stack, Checked)
    BY <1>1, <1>2 DEF Pushable
  <1>4. PICK t : t = Append(stack, Checked)
    OBVIOUS
  <1>5. /\ Shaped(t) /\ (HasErrorLoop(t) => HasErrorLoop(stack)) /\ TopKind(t) = "checked"
        /\ Len(t) = 2 /\ t[2] = Checked /\ UnderCheck(t)
    <2>1. /\ Shaped(t) /\ (HasErrorLoop(t) => HasErrorLoop(stack) \/ Checked.kind = "errors")
          /\ TopKind(t) = Checked.kind /\ t[Len(t)] = Checked /\ Len(t) = Len(stack) + 1
          /\ (UnderCheck(t) <=> UnderCheck(stack) \/ Checked.kind = "checked")
      BY <1>1, <1>3, <1>4, Pushed, Zenon
    <2>2. Len(t) = 2
      BY <1>1, <2>1
    <2> QED BY <1>2, <2>1, <2>2
  <1>6. Pushable(t, Program)
    BY <1>2, <1>5 DEF Pushable
  <1>7. stack' = Append(t, Program)
    BY <1>1, <1>4, TwoPushed DEF CobCallWithExceptionCheck, Shaped
  <1>8. /\ Shaped(stack') /\ (HasErrorLoop(stack') => HasErrorLoop(stack))
        /\ TopKind(stack') = "program" /\ UnderCheck(stack')
    BY <1>2, <1>5, <1>6, <1>7, Pushed
  <1>9. JumpOK'
    BY <1>1 DEF CobCallWithExceptionCheck, JumpOK
  <1> QED BY <1>1, <1>8, <1>9 DEF IInv, CobCallWithExceptionCheck, handlers, LoopOK, UnloadOK, LifeOK, Life, UnloadStep

\* The exit procedures begin.
LEMMA ExitsStarted ==
  ASSUME NEW s, Shaped(s), NEW ends, TopKind(s) # "terminated", ends = "tidy" => Len(s) = 1, StartExits(s, ends)
  PROVE  /\ Shaped(stack') /\ (HasErrorLoop(stack') => HasErrorLoop(s))
         /\ TopKind(stack') = "exits" /\ (UnderCheck(stack') <=> UnderCheck(s))
  <1>1. PICK e : e = ExitLoop(First, Procs(exits), ends)
    OBVIOUS
  <1>2. e.kind = "exits" /\ e.ends = ends /\ "kind" \in DOMAIN e /\ "ends" \in DOMAIN e
    BY <1>1 DEF ExitLoop
  <1>3. Pushable(s, e)
    BY <1>2 DEF Pushable
  <1> QED BY <1>1, <1>2, <1>3, Pushed DEF StartExits

LEMMA CobTidyStep == IInv /\ CobTidy => IInv' /\ UnloadStep
  <1> SUFFICES ASSUME IInv, CobTidy PROVE IInv' /\ UnloadStep
    OBVIOUS
  <1>1. Len(stack) = 1 /\ TopKind(stack) = "host" /\ Shaped(stack) /\ initialized = TRUE /\ terminations = 0
    BY At DEF CobTidy, Life, IInv
  <1>2. /\ Shaped(stack') /\ (HasErrorLoop(stack') => HasErrorLoop(stack))
        /\ TopKind(stack') = "exits" /\ (UnderCheck(stack') <=> UnderCheck(stack))
    BY <1>1, ExitsStarted DEF CobTidy
  <1> QED BY <1>1, <1>2 DEF IInv, CobTidy, handlers, jumps, LoopOK, UnloadOK, JumpOK, LifeOK, Life, UnloadStep

LEMMA HostEndsStep == IInv /\ HostEnds => IInv' /\ UnloadStep
  BY DEF IInv, HostEnds, handlers, jumps, LoopOK, UnloadOK, JumpOK, LifeOK, UnloadStep

\* COBOL code is in control.
LEMMA CobolAt ==
  ASSUME IInv, InCobol
  PROVE  /\ Shaped(stack) /\ TopKind(stack) \notin {"host", "terminated"} /\ initialized = TRUE /\ terminations = 0
         /\ mode = "running"
  <1>1. PICK k \in {"program", "exit proc", "error proc"} : Running(k)
    BY DEF InCobol, Running
  <1> QED BY <1>1, At DEF Life

LEMMA ExitListStep ==
  ASSUME IInv, InCobol, NEW p, stack' = UnlinkedAll(p) \/ stack' = stack,
         UNCHANGED <<active, jumps, mode, terminations>>
  PROVE  IInv' /\ UnloadStep
  <1>1. /\ Shaped(stack') /\ TopKind(stack') = TopKind(stack)
        /\ (HasErrorLoop(stack') <=> HasErrorLoop(stack)) /\ (UnderCheck(stack') <=> UnderCheck(stack))
    BY UnlinkedShaped DEF IInv
  <1> QED BY <1>1 DEF IInv, jumps, LoopOK, UnloadOK, JumpOK, LifeOK, UnloadStep

LEMMA ErrorListStep ==
  ASSUME IInv, UNCHANGED <<stack, active, jumps, terminations>>, mode' = mode \/ mode' = "freed"
  PROVE  IInv' /\ UnloadStep
  BY DEF IInv, jumps, LoopOK, UnloadOK, JumpOK, LifeOK, UnloadStep

LEMMA ListSteps ==
  ASSUME IInv, NEW p, NEW q, RemoveExit(p) \/ InstallExit(p, q) \/ InstallError(p) \/ RemoveError(p)
  PROVE  IInv' /\ UnloadStep
  <1>1. CASE RemoveExit(p)
    BY <1>1, ExitListStep DEF RemoveExit, Deed
  <1>2. CASE InstallExit(p, q)
    BY <1>2, ExitListStep DEF InstallExit, Deed
  <1>3. CASE InstallError(p)
    BY <1>3, ErrorListStep DEF InstallError, Undefined, SetErrors, handlers
  <1>4. CASE RemoveError(p)
    BY <1>4, ErrorListStep DEF RemoveError, Undefined, SetErrors, handlers
  <1> QED BY <1>1, <1>2, <1>3, <1>4

LEMMA RuntimeErrorStep == ASSUME IInv, NEW fatal, RuntimeError(fatal) PROVE IInv' /\ UnloadStep
  <1>1. /\ Shaped(stack) /\ TopKind(stack) \notin {"host", "terminated"} /\ initialized = TRUE /\ terminations = 0
        /\ mode = "running"
    BY CobolAt DEF RuntimeError, Deed
  <1>2. CASE errors # <<>> /\ ~active
    <2>1. PICK e : e = ErrorLoop(errors, fatal)
      OBVIOUS
    <2>2. e.kind = "errors" /\ "kind" \in DOMAIN e
      BY <2>1 DEF ErrorLoop
    <2>3. Pushable(stack, e)
      BY <1>1, <1>2, <2>2 DEF Pushable, IInv, LoopOK
    <2>4. stack' = Append(stack, e) /\ active' = TRUE
      BY <1>2, <2>1 DEF RuntimeError
    <2>5. Shaped(stack') /\ TopKind(stack') = "errors" /\ (UnderCheck(stack') <=> UnderCheck(stack))
      BY <1>1, <2>2, <2>3, <2>4, Pushed
    <2> QED BY <1>1, <2>4, <2>5 DEF IInv, RuntimeError, jumps, LoopOK, UnloadOK, JumpOK, LifeOK, Life, UnloadStep
  <1>3. CASE ~(errors # <<>> /\ ~active)
    <2>1. /\ Shaped(stack') /\ (HasErrorLoop(stack') => HasErrorLoop(stack))
          /\ TopKind(stack') \notin {"host", "terminated"} /\ (UnderCheck(stack') <=> UnderCheck(stack))
      <3>1. CASE fatal
        BY <1>1, <1>3, <3>1, ExitsStarted DEF RuntimeError
      <3>2. CASE ~fatal
        BY <1>1, <1>3, <3>2 DEF RuntimeError
      <3> QED BY <3>1, <3>2
    <2> QED BY <1>1, <1>3, <2>1 DEF IInv, RuntimeError, jumps, LoopOK, UnloadOK, JumpOK, LifeOK, Life, UnloadStep
  <1> QED BY <1>2, <1>3

LEMMA StopRunStep == IInv /\ StopRun => IInv' /\ UnloadStep
  <1> SUFFICES ASSUME IInv, StopRun PROVE IInv' /\ UnloadStep
    OBVIOUS
  <1>1. /\ Shaped(stack) /\ TopKind(stack) \notin {"host", "terminated"} /\ initialized = TRUE /\ terminations = 0
        /\ mode = "running"
    BY CobolAt DEF StopRun, Deed
  <1>2. /\ Shaped(stack') /\ (HasErrorLoop(stack') => HasErrorLoop(stack))
        /\ TopKind(stack') = "exits" /\ (UnderCheck(stack') <=> UnderCheck(stack))
    BY <1>1, ExitsStarted DEF StopRun
  <1> QED BY <1>1, <1>2 DEF IInv, StopRun, handlers, jumps, LoopOK, UnloadOK, JumpOK, LifeOK, Life, UnloadStep

-----------------------------------------------------------------------------
\* What is below a frame of this kind.
LEMMA BelowAt ==
  ASSUME IInv, NEW k, k \notin {"host", "checked"}, Running(k)
  PROVE  /\ Below = Front(stack) /\ Shaped(Below) /\ Len(Below) \in Nat /\ Len(Below) > 0
         /\ Len(stack) = Len(Below) + 1 /\ Last(Below) = stack[Len(Below)] /\ TopKind(Below) # "terminated"
         /\ (HasErrorLoop(Below) => HasErrorLoop(stack) /\ k # "errors")
         /\ (UnderCheck(Below) <=> UnderCheck(stack))
         /\ Fits(Top, Len(stack), TopKind(Below), Second(stack, Len(stack)))
         /\ FrameOK(stack, Len(Below)) /\ Last(Below).kind = TopKind(Below)
         /\ (Len(stack) = 2 => Len(Below) = 1) /\ (Len(stack) = 3 => Len(Below) = 2)
         /\ (Len(Below) # 1 => Len(Below) > 1)
  <1>1. /\ Shaped(stack) /\ Len(stack) > 1 /\ TopKind(stack) = k /\ Top = stack[Len(stack)] /\ Len(stack) \in Nat
        /\ Top.kind = k
    BY At
  <1>2. PICK n \in Nat : n + 1 = Len(stack) /\ n > 0 /\ n = Len(stack) - 1 /\ n \in 1..Len(stack) /\ n \in 1..n
    <2>1. PICK m \in Nat : m = Len(stack) /\ m > 1
      BY <1>1
    <2>2. m - 1 \in Nat /\ m - 1 > 0 /\ m - 1 + 1 = m /\ m - 1 \in 1..m /\ m - 1 \in 1..(m - 1)
      BY <2>1
    <2> QED BY <2>1, <2>2
  <1>3. PICK b : b = Front(stack)
    OBVIOUS
  <1>4. /\ Shaped(b) /\ Len(b) = n /\ \A i \in 1..n : b[i] = stack[i]
        /\ TopKind(b) = stack[n].kind /\ TopKind(b) # "terminated"
        /\ (HasErrorLoop(b) => HasErrorLoop(stack) /\ k # "errors")
        /\ (UnderCheck(b) <=> UnderCheck(stack) /\ Len(stack) > 2)
    BY <1>1, <1>2, <1>3, Popped
  <1>5. FrameOK(stack, n) /\ FrameOK(stack, Len(stack))
    BY <1>1, <1>2 DEF Shaped
  <1>6. Before(stack, Len(stack)) = TopKind(b)
    <2>1. Len(stack) # 1
      BY <1>1
    <2> QED BY <1>2, <1>4, <2>1 DEF Before
  <1>7. UnderCheck(stack) => Len(stack) > 2
    <2>1. Len(stack) > 2 \/ Len(stack) = 2
      BY <1>1, SMTT(40)
    <2>2. Len(stack) = 2 => stack[2].kind = k
      BY <1>1
    <2> QED BY <2>1, <2>2 DEF UnderCheck
  <1>8. Last(b) = stack[n]
    BY <1>2, <1>4 DEF Last
  <1>9. (Len(stack) = 2 => n = 1) /\ (Len(stack) = 3 => n = 2) /\ (n # 1 => n > 1)
    BY <1>2
  <1>10. Below = b
    BY <1>3 DEF Below
  <1>11. /\ Fits(Top, Len(stack), TopKind(b), Second(stack, Len(stack))) /\ FrameOK(stack, Len(b))
         /\ Last(b).kind = TopKind(b) /\ Last(b) = stack[Len(b)]
    BY <1>1, <1>4, <1>5, <1>6, <1>8 DEF FrameOK
  <1>12. UnderCheck(b) <=> UnderCheck(stack)
    BY <1>4, <1>7, Zenon
  <1> QED BY <1>1, <1>2, <1>3, <1>4, <1>9, <1>10, <1>11, <1>12

LEMMA AtWork ==
  ASSUME IInv, NEW k \in {"program", "exits", "errors", "exit proc", "error proc"}, Running(k)
  PROVE  initialized = TRUE /\ terminations = 0 /\ mode = "running"
  <1>1. k \notin {"host", "terminated"}
    OBVIOUS
  <1>2. Life(k, initialized, terminations, unload) /\ mode = "running"
    BY At
  <1> QED BY <1>1, <1>2, Zenon DEF Life

LEMMA ProgramReturnsStep == IInv /\ ProgramReturns => IInv' /\ UnloadStep
  <1> SUFFICES ASSUME IInv, ProgramReturns PROVE IInv' /\ UnloadStep
    OBVIOUS
  <1>0. Running("program")
    BY DEF ProgramReturns
  <1>1. Running("program") /\ initialized = TRUE /\ terminations = 0 /\ mode = "running"
    BY <1>0, AtWork
  <1>2. /\ Shaped(Below) /\ Len(Below) \in Nat /\ Len(Below) > 0 /\ Len(stack) = Len(Below) + 1
        /\ Last(Below) = stack[Len(Below)] /\ (HasErrorLoop(Below) => HasErrorLoop(stack))
        /\ (Len(stack) = 2 => Len(Below) = 1) /\ (Len(stack) = 3 => Len(Below) = 2)
        /\ (UnderCheck(Below) <=> UnderCheck(stack)) /\ FrameOK(stack, Len(Below))
        /\ Fits(Top, Len(stack), TopKind(Below), Second(stack, Len(stack))) /\ Last(Below).kind = TopKind(Below)
    BY <1>1, BelowAt
  <1>3. Len(stack) = 2 \/ (Len(stack) = 3 /\ Second(stack, Len(stack)) = "checked")
    <2>1. Top.kind = "program"
      BY <1>1, At
    <2> QED BY <1>2, <2>1, Zenon DEF Fits
  <1>4. CASE Last(Below) = Checked
    <2>1. TopKind(Below) = "checked"
      BY <1>2, <1>4 DEF Checked
    <2>2. Len(Below) # 1
      BY <1>2, <2>1, TopOf
    <2>3. Len(Below) = 2
      BY <1>2, <1>3, <2>2, Zenon
    <2>4. PICK c : c = Front(Below)
      OBVIOUS
    <2>5. Len(Below) > 1
      BY <2>3
    <2>6. Shaped(c) /\ Len(c) = 1 /\ (HasErrorLoop(c) => HasErrorLoop(stack))
      <3>1. Shaped(c) /\ Len(c) = Len(Below) - 1 /\ (HasErrorLoop(c) => HasErrorLoop(Below))
        BY <1>2, <2>4, <2>5, Popped
      <3>2. Len(c) = 1
        BY <2>3, <3>1
      <3> QED BY <1>2, <3>1, <3>2
    <2>7. TopKind(c) = "host" /\ ~UnderCheck(c)
      BY <2>6, TopOf DEF UnderCheck
    <2>8. stack' = c /\ unload' = "immediate"
      BY <1>4, <2>4 DEF ProgramReturns
    <2> QED BY <1>1, <2>6, <2>7, <2>8 DEF IInv, ProgramReturns, handlers, LoopOK, UnloadOK, JumpOK, LifeOK, Life, UnloadStep
  <1>5. CASE Last(Below) # Checked
    <2>1. Len(stack) = 2
      <3> SUFFICES ASSUME Len(stack) = 3, Second(stack, Len(stack)) = "checked" PROVE FALSE
        BY <1>3
      <3>1. Len(Below) = 2
        BY <1>2, Zenon
      <3>2. stack[2].kind = "checked"
        BY DEF Second
      <3>3. stack[2] = Checked
        BY <1>2, <3>1, <3>2, Zenon DEF FrameOK, Fits
      <3> QED BY <1>2, <1>5, <3>1, <3>3
    <2>2. Len(Below) = 1
      BY <1>2, <2>1, Zenon
    <2>3. TopKind(Below) = "host" /\ ~UnderCheck(Below)
      BY <1>2, <2>2, TopOf DEF UnderCheck
    <2>4. stack' = Below /\ unload' = unload
      BY <1>5 DEF ProgramReturns
    <2> QED BY <1>1, <1>2, <2>3, <2>4 DEF IInv, ProgramReturns, handlers, LoopOK, UnloadOK, JumpOK, LifeOK, Life, UnloadStep
  <1> QED BY <1>4, <1>5

LEMMA CallExitProcStep == IInv /\ CallExitProc => IInv' /\ UnloadStep
  <1> SUFFICES ASSUME IInv, CallExitProc PROVE IInv' /\ UnloadStep
    OBVIOUS
  <1>0. Running("exits")
    BY DEF CallExitProc
  <1>1. /\ Running("exits") /\ initialized = TRUE /\ terminations = 0 /\ mode = "running" /\ Shaped(stack)
        /\ Len(stack) > 1 /\ TopKind(stack) = "exits" /\ Top = Last(stack) /\ Top.kind = "exits" /\ "kind" \in DOMAIN Top
    <2>1. initialized = TRUE /\ terminations = 0 /\ mode = "running"
      BY <1>0, AtWork
    <2>2. /\ Shaped(stack) /\ Len(stack) > 1 /\ TopKind(stack) = "exits" /\ Top = Last(stack) /\ Top.kind = "exits"
          /\ "kind" \in DOMAIN Top
      BY <1>0, At
    <2> QED BY <1>0, <2>1, <2>2
  <1>2. "ends" \in DOMAIN Top
    BY <1>1, BelowAt, Zenon DEF Fits
  <1>3. PICK e : e = [Top EXCEPT !.ran = Append(@, Top.at)]
    OBVIOUS
  <1>4. e.kind = Top.kind /\ e.ends = Top.ends /\ "kind" \in DOMAIN e /\ "ends" \in DOMAIN e
    BY <1>1, <1>2, <1>3
  <1>5. Alike(Last(stack), e)
    BY <1>1, <1>4 DEF Alike
  <1>6. PICK t : t = Append(Below, e)
    OBVIOUS
  <1>7. /\ Shaped(t) /\ TopKind(t) = "exits" /\ (HasErrorLoop(t) => HasErrorLoop(stack))
        /\ (UnderCheck(t) <=> UnderCheck(stack))
    BY <1>1, <1>5, <1>6, Replaced DEF Below
  <1>8. PICK x : x = ExitProc(Top.at)
    OBVIOUS
  <1>9. x.kind = "exit proc" /\ "kind" \in DOMAIN x
    BY <1>8 DEF ExitProc
  <1>10. Pushable(t, x)
    BY <1>7, <1>9 DEF Pushable
  <1>11. stack' = Append(t, x)
    <2>1. Below \in Seq(ToSet(Below))
      BY <1>1, BelowAt DEF Shaped
    <2>2. stack' = Below \o <<e, x>>
      BY <1>3, <1>8 DEF CallExitProc
    <2> QED BY <1>6, <2>1, <2>2, TwoPushed
  <1>12. /\ Shaped(stack') /\ TopKind(stack') = "exit proc" /\ (HasErrorLoop(stack') => HasErrorLoop(stack))
         /\ (UnderCheck(stack') <=> UnderCheck(stack))
    BY <1>7, <1>9, <1>10, <1>11, Pushed
  <1> QED BY <1>1, <1>12 DEF IInv, CallExitProc, handlers, jumps, LoopOK, UnloadOK, JumpOK, LifeOK, Life, UnloadStep

\* A procedure returns to the loop that called it.
LEMMA BackInLoop ==
  ASSUME IInv, NEW k \in {"exit proc", "error proc"}, Running(k), NEW e, Alike(Last(Below), e)
  PROVE  /\ Shaped(Append(Front(Below), e)) /\ TopKind(Append(Front(Below), e)) \in {"exits", "errors"}
         /\ HasErrorLoop(Append(Front(Below), e)) => HasErrorLoop(stack)
         /\ UnderCheck(Append(Front(Below), e)) <=> UnderCheck(stack)
  <1>1. /\ Shaped(Below) /\ (HasErrorLoop(Below) => HasErrorLoop(stack)) /\ (UnderCheck(Below) <=> UnderCheck(stack))
        /\ Fits(Top, Len(stack), TopKind(Below), Second(stack, Len(stack))) /\ Len(Below) \in Nat /\ Len(Below) > 0
    BY BelowAt
  <1>2. TopKind(Below) \in {"exits", "errors"}
    <2>1. Top.kind = k
      BY At
    <2> QED BY <1>1, <2>1, Zenon DEF Fits
  <1>3. Len(Below) > 1
    <2>1. Len(Below) # 1
      BY <1>1, <1>2, TopOf
    <2> QED BY <2>1, BelowAt
  <1> QED BY <1>1, <1>2, <1>3, Replaced

\* The frame below is a loop that can be changed.
LEMMA LoopBelow ==
  ASSUME IInv, NEW k \in {"exit proc", "error proc"}, Running(k)
  PROVE  /\ "kind" \in DOMAIN Last(Below) /\ (Last(Below).kind = "exits" => "ends" \in DOMAIN Last(Below))
         /\ Last(Below).kind # "checked" /\ (k = "exit proc" => Last(Below).kind = "exits")
         /\ (k = "error proc" => Last(Below).kind = "errors")
  <1>1. /\ Last(Below) = stack[Len(Below)] /\ FrameOK(stack, Len(Below)) /\ Last(Below).kind = TopKind(Below)
        /\ Fits(Top, Len(stack), TopKind(Below), Second(stack, Len(stack)))
    BY BelowAt
  <1>2. Top.kind = k
    BY At
  <1>3. (k = "exit proc" => TopKind(Below) = "exits") /\ (k = "error proc" => TopKind(Below) = "errors")
    BY <1>1, <1>2, Zenon DEF Fits
  <1>4. "kind" \in DOMAIN Last(Below) /\ (Last(Below).kind = "exits" => "ends" \in DOMAIN Last(Below))
    BY <1>1, Zenon DEF FrameOK, Fits
  <1> QED BY <1>1, <1>3, <1>4

LEMMA ExitProcReturnsStep == IInv /\ ExitProcReturns => IInv' /\ UnloadStep
  <1> SUFFICES ASSUME IInv, ExitProcReturns PROVE IInv' /\ UnloadStep
    OBVIOUS
  <1>0. Running("exit proc")
    BY DEF ExitProcReturns
  <1>1. Running("exit proc") /\ initialized = TRUE /\ terminations = 0
    BY <1>0, AtWork
  <1>2. PICK loop : loop = Last(Below)
    OBVIOUS
  <1>3. CASE loop.at = FREED
    <2>1. mode' = "freed" /\ UNCHANGED <<stack, handlers, jumps, terminations>>
      BY <1>2, <1>3 DEF ExitProcReturns, Undefined
    <2> QED BY <2>1 DEF IInv, handlers, jumps, LoopOK, UnloadOK, JumpOK, LifeOK, UnloadStep
  <1>4. CASE loop.at # FREED
    <2>1. PICK e : e = [loop EXCEPT !.at = NextOf(@)]
      OBVIOUS
    <2>2. loop.kind = "exits" /\ "kind" \in DOMAIN loop /\ "ends" \in DOMAIN loop
      BY <1>1, <1>2, LoopBelow
    <2>3. e.kind = loop.kind /\ e.ends = loop.ends /\ "kind" \in DOMAIN e /\ "ends" \in DOMAIN e
      BY <2>1, <2>2
    <2>4. Alike(Last(Below), e)
      BY <1>2, <2>2, <2>3 DEF Alike
    <2>5. stack' = Append(Front(Below), e) /\ UNCHANGED <<handlers, jumps, mode, terminations>>
      BY <1>2, <1>4, <2>1 DEF ExitProcReturns
    <2>6. /\ Shaped(stack') /\ TopKind(stack') \in {"exits", "errors"} /\ (HasErrorLoop(stack') => HasErrorLoop(stack))
          /\ (UnderCheck(stack') <=> UnderCheck(stack))
      BY <1>1, <2>4, <2>5, BackInLoop
    <2> QED BY <1>1, <2>5, <2>6 DEF IInv, handlers, jumps, LoopOK, UnloadOK, JumpOK, LifeOK, Life, UnloadStep
  <1> QED BY <1>3, <1>4

LEMMA CallErrorProcStep == IInv /\ CallErrorProc => IInv' /\ UnloadStep
  <1> SUFFICES ASSUME IInv, CallErrorProc PROVE IInv' /\ UnloadStep
    OBVIOUS
  <1>0. Running("errors")
    BY DEF CallErrorProc
  <1>1. /\ Running("errors") /\ initialized = TRUE /\ terminations = 0 /\ mode = "running" /\ Shaped(stack)
        /\ Len(stack) > 1 /\ TopKind(stack) = "errors" /\ Top = Last(stack) /\ Top.kind = "errors" /\ "kind" \in DOMAIN Top
    <2>1. initialized = TRUE /\ terminations = 0 /\ mode = "running"
      BY <1>0, AtWork
    <2>2. /\ Shaped(stack) /\ Len(stack) > 1 /\ TopKind(stack) = "errors" /\ Top = Last(stack) /\ Top.kind = "errors"
          /\ "kind" \in DOMAIN Top
      BY <1>0, At
    <2> QED BY <1>0, <2>1, <2>2
  <1>2. PICK p : p = Head(Top.left)
    OBVIOUS
  <1>3. PICK e : e = [Top EXCEPT !.left = Tail(@), !.ran = Append(@, p)]
    OBVIOUS
  <1>4. e.kind = Top.kind /\ "kind" \in DOMAIN e
    BY <1>1, <1>3
  <1>5. Alike(Last(stack), e)
    BY <1>1, <1>4 DEF Alike
  <1>6. PICK t : t = Append(Below, e)
    OBVIOUS
  <1>7. /\ Shaped(t) /\ TopKind(t) = "errors" /\ (HasErrorLoop(t) => HasErrorLoop(stack))
        /\ (UnderCheck(t) <=> UnderCheck(stack))
    BY <1>1, <1>5, <1>6, Replaced DEF Below
  <1>8. PICK x : x = ErrorProc(p)
    OBVIOUS
  <1>9. x.kind = "error proc" /\ "kind" \in DOMAIN x
    BY <1>8 DEF ErrorProc
  <1>10. Pushable(t, x)
    BY <1>7, <1>9 DEF Pushable
  <1>11. stack' = Append(t, x)
    <2>1. Below \in Seq(ToSet(Below))
      BY <1>1, BelowAt DEF Shaped
    <2>2. stack' = Below \o <<e, x>>
      BY <1>2, <1>3, <1>8 DEF CallErrorProc
    <2> QED BY <1>6, <2>1, <2>2, TwoPushed
  <1>12. /\ Shaped(stack') /\ TopKind(stack') = "error proc" /\ (HasErrorLoop(stack') => HasErrorLoop(stack))
         /\ (UnderCheck(stack') <=> UnderCheck(stack))
    BY <1>7, <1>9, <1>10, <1>11, Pushed
  <1> QED BY <1>1, <1>12 DEF IInv, CallErrorProc, handlers, jumps, LoopOK, UnloadOK, JumpOK, LifeOK, Life, UnloadStep

LEMMA ErrorProcReturnsStep == ASSUME IInv, NEW more, ErrorProcReturns(more) PROVE IInv' /\ UnloadStep
  <1>0. Running("error proc")
    BY DEF ErrorProcReturns
  <1>1. Running("error proc") /\ initialized = TRUE /\ terminations = 0
    BY <1>0, AtWork
  <1>2. PICK e : e = [Last(Below) EXCEPT !.more = more]
    OBVIOUS
  <1>3. Last(Below).kind = "errors" /\ "kind" \in DOMAIN Last(Below)
    BY <1>1, LoopBelow
  <1>4. e.kind = Last(Below).kind /\ "kind" \in DOMAIN e
    BY <1>2, <1>3
  <1>5. Alike(Last(Below), e)
    BY <1>3, <1>4 DEF Alike
  <1>6. stack' = Append(Front(Below), e)
    BY <1>2 DEF ErrorProcReturns
  <1>7. /\ Shaped(stack') /\ TopKind(stack') \in {"exits", "errors"} /\ (HasErrorLoop(stack') => HasErrorLoop(stack))
        /\ (UnderCheck(stack') <=> UnderCheck(stack))
    BY <1>1, <1>5, <1>6, BackInLoop
  <1> QED BY <1>1, <1>7 DEF IInv, ErrorProcReturns, handlers, jumps, LoopOK, UnloadOK, JumpOK, LifeOK, Life, UnloadStep

LEMMA ErrorsDoneStep == IInv /\ ErrorsDone => IInv' /\ UnloadStep
  <1> SUFFICES ASSUME IInv, ErrorsDone PROVE IInv' /\ UnloadStep
    OBVIOUS
  <1>0. Running("errors")
    BY DEF ErrorsDone
  <1>1. Running("errors") /\ initialized = TRUE /\ terminations = 0 /\ mode = "running"
    BY <1>0, At, AtWork
  <1>2. /\ Shaped(Below) /\ ~HasErrorLoop(Below) /\ TopKind(Below) # "terminated"
        /\ (UnderCheck(Below) <=> UnderCheck(stack))
    BY <1>1, BelowAt
  <1>3. Shaped(stack') /\ ~HasErrorLoop(stack') /\ TopKind(stack') # "terminated" /\ (UnderCheck(stack') <=> UnderCheck(stack))
    <2>1. CASE Top.fatal
      <3>1. StartExits(Below, "failure")
        BY <2>1 DEF ErrorsDone
      <3> QED BY <1>2, <3>1, ExitsStarted
    <2>2. CASE ~Top.fatal
      BY <1>2, <2>2 DEF ErrorsDone
    <2> QED BY <2>1, <2>2
  <1>4. UNCHANGED <<jumps, mode, terminations>> /\ active' = FALSE
    BY DEF ErrorsDone
  <1> QED BY <1>1, <1>3, <1>4 DEF IInv, jumps, LoopOK, UnloadOK, JumpOK, LifeOK, Life, UnloadStep

LEMMA TerminateStep == IInv /\ Terminate => IInv' /\ UnloadStep
  <1> SUFFICES ASSUME IInv, Terminate PROVE IInv' /\ UnloadStep
    OBVIOUS
  <1>0. Running("exits")
    BY DEF Terminate
  <1>1. Running("exits") /\ initialized = TRUE /\ mode = "running" /\ Top.kind = "exits"
    BY <1>0, At, AtWork
  <1>2. /\ Shaped(Below) /\ (HasErrorLoop(Below) => HasErrorLoop(stack)) /\ TopKind(Below) # "terminated"
        /\ (UnderCheck(Below) <=> UnderCheck(stack)) /\ Len(Below) \in Nat /\ Len(stack) = Len(Below) + 1
        /\ Fits(Top, Len(stack), TopKind(Below), Second(stack, Len(stack)))
    BY <1>1, BelowAt
  <1>3. PICK e : e = [kind |-> "terminated", ends |-> Top.ends]
    OBVIOUS
  <1>4. e.kind = "terminated" /\ e.ends = Top.ends /\ "kind" \in DOMAIN e
    BY <1>3
  <1>5. e.ends = "tidy" => Len(Below) = 1
    <2>1. e.ends = "tidy" => Len(stack) = 2
      BY <1>1, <1>2, <1>4, Zenon DEF Fits
    <2>2. Len(stack) = 2 => Len(Below) = 1
      BY <1>0, BelowAt
    <2> QED BY <2>1, <2>2
  <1>6. Pushable(Below, e)
    BY <1>2, <1>4, <1>5, Zenon DEF Pushable
  <1>7. stack' = Append(Below, e)
    BY <1>3 DEF Terminate
  <1>8. /\ Shaped(stack') /\ TopKind(stack') = "terminated" /\ (HasErrorLoop(stack') => HasErrorLoop(stack))
        /\ (UnderCheck(stack') <=> UnderCheck(stack))
    BY <1>2, <1>4, <1>6, <1>7, Pushed
  <1>9. /\ unload \in {"immediate", "postpone", "requested"} /\ (unload # "immediate" <=> UnderCheck(stack))
        /\ unload' = (IF unload = "postpone" THEN "requested" ELSE unload)
        /\ initialized' = (unload # "immediate")
    BY <1>1 DEF IInv, UnloadOK, Terminate, UnloadAfter, StaysAfter
  <1>10. UnloadOK' /\ UnloadStep /\ initialized' \in BOOLEAN /\ (initialized' = FALSE \/ unload' = "requested")
    BY <1>8, <1>9 DEF UnloadOK, UnloadStep
  <1>11. active' = active /\ jump' = jump /\ mode' = mode
    BY DEF Terminate, handlers
  <1> QED BY <1>8, <1>10, <1>11 DEF IInv, LoopOK, JumpOK, LifeOK, Life

\* After the longjmp the host is in control of a run unit that is gone.
LEMMA LongJumpStep ==
  ASSUME IInv, NEW u, NEW init, jump.set, LongJump(u, init), init = FALSE \/ u = "requested",
         active' = active
  PROVE  IInv' /\ UnloadStep
  <1>1. jump.to = 2
    BY DEF IInv, JumpOK
  <1>2. CASE Lands
    <2>1. PICK t : t = SubSeq(stack, 1, 1)
      OBVIOUS
    <2>2. stack' = t /\ jump' = [set |-> FALSE, to |-> 0] /\ unload' = "immediate" /\ initialized' = FALSE
      <3>1. /\ stack' = SubSeq(stack, 1, jump.to - 1) /\ jump' = [set |-> FALSE, to |-> 0] /\ unload' = "immediate"
            /\ initialized' = (init /\ u # "requested")
        BY <1>2 DEF LongJump
      <3>2. jump.to - 1 = 1
        BY <1>1
      <3>3. (init /\ u # "requested") = FALSE
        OBVIOUS
      <3> QED BY <2>1, <3>1, <3>2, <3>3
    <2>3. Shaped(stack) /\ 1 \in 1..Len(stack)
      BY DEF IInv, Shaped
    <2>4. Shaped(t) /\ Len(t) = 1 /\ (HasErrorLoop(t) => HasErrorLoop(stack)) /\ ~UnderCheck(t)
      BY <2>1, <2>3, Cut
    <2>5. TopKind(t) = "host"
      BY <2>4, TopOf
    <2> QED BY <2>2, <2>4, <2>5 DEF IInv, LoopOK, UnloadOK, JumpOK, LifeOK, Life, UnloadStep
  <1>3. CASE ~Lands
    <2>1. mode' = "lost" /\ UNCHANGED <<stack, jumps>>
      BY <1>3 DEF LongJump
    <2> QED BY <2>1 DEF IInv, jumps, LoopOK, UnloadOK, JumpOK, LifeOK, UnloadStep
  <1> QED BY <1>2, <1>3

LEMMA LeaveStep == IInv /\ Leave => IInv' /\ UnloadStep
  <1> SUFFICES ASSUME IInv, Leave PROVE IInv' /\ UnloadStep
    OBVIOUS
  <1>1. Running("terminated") /\ Top.kind = "terminated" /\ mode = "running" /\ (initialized = FALSE \/ unload = "requested")
    BY At DEF Leave, Life
  <1>2. active' = active /\ terminations' = terminations
    BY DEF Leave, handlers
  <1>3. CASE Top.ends = "tidy"
    <2>1. stack' = Below /\ UNCHANGED <<mode, jumps>>
      BY <1>3 DEF Leave
    <2>2. /\ Shaped(Below) /\ (HasErrorLoop(Below) => HasErrorLoop(stack)) /\ Len(Below) \in Nat
          /\ (UnderCheck(Below) <=> UnderCheck(stack)) /\ Len(stack) = Len(Below) + 1
          /\ Fits(Top, Len(stack), TopKind(Below), Second(stack, Len(stack)))
      BY <1>1, BelowAt
    <2>3. Len(stack) = 2
      BY <1>1, <1>3, <2>2, Zenon DEF Fits
    <2>4. Len(Below) = 1
      BY <1>1, <2>3, BelowAt
    <2>5. TopKind(Below) = "host" /\ ~UnderCheck(Below)
      BY <2>2, <2>4, TopOf DEF UnderCheck
    <2>6. initialized = FALSE
      BY <1>1, <2>2, <2>5 DEF IInv, UnloadOK
    <2> QED BY <1>2, <2>1, <2>2, <2>5, <2>6 DEF IInv, jumps, LoopOK, UnloadOK, JumpOK, LifeOK, Life, UnloadStep
  <1>4. CASE Top.ends # "tidy" /\ jump.set
    <2>1. LongJump(unload, initialized)
      BY <1>4 DEF Leave
    <2> QED BY <1>1, <1>2, <1>4, <2>1, LongJumpStep
  <1>5. CASE Top.ends # "tidy" /\ ~jump.set
    <2>1. mode' = "exited" /\ UNCHANGED <<stack, jumps>>
      BY <1>5 DEF Leave
    <2> QED BY <1>2, <2>1 DEF IInv, jumps, LoopOK, UnloadOK, JumpOK, LifeOK, UnloadStep
  <1> QED BY <1>3, <1>4, <1>5

LEMMA CobSigHandlerStep == IInv /\ CobSigHandler => IInv' /\ UnloadStep
  <1> SUFFICES ASSUME IInv, CobSigHandler PROVE IInv' /\ UnloadStep
    OBVIOUS
  <1>1. active' = active
    BY DEF CobSigHandler, handlers
  <1>2. CASE handled
    <2>1. mode' = "killed" /\ UNCHANGED <<stack, jumps>>
      BY <1>2 DEF CobSigHandler
    <2> QED BY <1>1, <2>1 DEF IInv, jumps, LoopOK, UnloadOK, JumpOK, LifeOK, UnloadStep
  <1>3. unload \in {"immediate", "postpone", "requested"} /\ initialized \in BOOLEAN
    BY DEF IInv, UnloadOK
  <1>4. CASE ~handled /\ jump.set
    <2>1. LongJump(UnloadAfter, StaysAfter)
      BY <1>4 DEF CobSigHandler
    <2>2. StaysAfter = FALSE \/ UnloadAfter = "requested"
      BY <1>3 DEF StaysAfter, UnloadAfter
    <2> QED BY <1>1, <1>4, <2>1, <2>2, LongJumpStep
  <1>5. CASE ~handled /\ ~jump.set
    <2>1. mode' = "killed" /\ unload' = UnloadAfter /\ initialized' = StaysAfter /\ UNCHANGED <<stack, jump>>
      BY <1>5 DEF CobSigHandler
    <2>2. initialized' \in BOOLEAN /\ UnloadStep /\ unload' \in {"immediate", "postpone", "requested"}
      BY <1>3, <2>1 DEF UnloadStep, UnloadAfter, StaysAfter
    <2>3. unload' # "immediate" <=> unload # "immediate"
      BY <1>3, <2>1 DEF UnloadAfter
    <2> QED BY <1>1, <2>1, <2>2, <2>3 DEF IInv, LoopOK, UnloadOK, JumpOK, LifeOK
  <1> QED BY <1>2, <1>4, <1>5

LEMMA NextIInv == IInv /\ [Next]_vars => IInv' /\ UnloadStep
  <1> SUFFICES ASSUME IInv, [Next]_vars PROVE IInv' /\ UnloadStep
    OBVIOUS
  <1>1. CASE HostNext
    BY <1>1, CobInitStep, CobCallStep, CheckedCallStep, CobTidyStep, HostEndsStep DEF HostNext
  <1>2. CASE CobolNext
    BY <1>2, ListSteps, RuntimeErrorStep, StopRunStep DEF CobolNext
  <1>3. CASE Returns
    BY <1>3, ProgramReturnsStep, CallExitProcStep, ExitProcReturnsStep, CallErrorProcStep,
       ErrorProcReturnsStep, ErrorsDoneStep, TerminateStep, LeaveStep DEF Returns
  <1>4. CASE CobSigHandler
    BY <1>4, CobSigHandlerStep
  <1>5. CASE UNCHANGED vars
    BY <1>5, StutterStep
  <1> QED BY <1>1, <1>2, <1>3, <1>4, <1>5 DEF Next

-----------------------------------------------------------------------------
\* The invariant holds in every behaviour: control stacks have the shape that the calls in
\* common.c give them, and the statics agree with them.
THEOREM Inductive == Spec => []IInv
  <1>1. Init => IInv
    BY InitIInv
  <1>2. IInv /\ [Next]_vars => IInv'
    BY NextIInv
  <1> QED BY <1>1, <1>2, PTL DEF Spec

LEMMA OneLoop == IInv => ErrorLoopsDoNotNest
  <1> SUFFICES ASSUME IInv PROVE ErrorLoopsDoNotNest
    OBVIOUS
  <1>1. Shaped(stack) /\ LoopOK
    BY DEF IInv
  <1>2. PICK n \in Nat : n = Len(stack) /\ DOMAIN stack = 1..n
    BY <1>1 DEF Shaped
  <1>3. \A i, j \in ErrorLoops : i = j
    BY <1>1, <1>2 DEF ErrorLoops, Shaped, OneErrorLoop
  <1>4. CASE ErrorLoops = {}
    BY <1>4, FS_EmptySet DEF ErrorLoopsDoNotNest
  <1>5. CASE ErrorLoops # {}
    <2>1. PICK i : i \in ErrorLoops
      BY <1>5
    <2>2. ErrorLoops = {i}
      BY <1>3, <2>1
    <2>3. Cardinality(ErrorLoops) = 1
      BY <2>2, FS_Singleton
    <2>4. HasErrorLoop(stack)
      BY <1>2, <2>1 DEF ErrorLoops, HasErrorLoop
    <2> QED BY <1>1, <2>3, <2>4 DEF ErrorLoopsDoNotNest, LoopOK
  <1> QED BY <1>4, <1>5

\* However procedures, errors and returns follow each other, the error procedures run in one
\* loop at a time, and active_error_handler says so.
THEOREM OneErrorLoopAtATime == Spec => []ErrorLoopsDoNotNest
  BY Inductive, OneLoop, PTL

\* Whatever ends a run unit, and whatever its procedures do on the way, no COBOL code runs
\* on one that has been torn down.
THEOREM NeverOnTornDown == Spec => []NoCobolAfterTeardown
  <1>1. IInv => NoCobolAfterTeardown
    BY CobolAt DEF NoCobolAfterTeardown
  <1> QED BY <1>1, Inductive, PTL

\* Modules stay loaded as long as cob_call_with_exception_check is on the stack.
THEOREM LoadedUnderCheck == Spec => NoUnloadUnderCheck
  <1>1. IInv /\ [Next]_vars => [initialized /\ ~initialized' => Checked \notin {stack'[i] : i \in DOMAIN stack'}]_vars
    <2> SUFFICES ASSUME IInv, [Next]_vars, initialized, ~initialized', NEW i \in DOMAIN stack', stack'[i] = Checked
                 PROVE  FALSE
      OBVIOUS
    <2>1. IInv' /\ UnloadStep
      BY NextIInv
    <2>2. initialized = TRUE /\ initialized' = FALSE
      BY <2>1 DEF IInv
    <2>3. ~UnderCheck(stack')
      BY <2>1, <2>2 DEF IInv, UnloadOK, UnloadStep
    <2>4. Shaped(stack') /\ stack'[i].kind = "checked"
      BY <2>1 DEF IInv, Checked
    <2>5. i \in 1..Len(stack') /\ FrameOK(stack', i)
      BY <2>4 DEF Shaped
    <2>6. i = 2
      BY <2>4, <2>5, Zenon DEF FrameOK, Fits
    <2> QED BY <2>3, <2>4, <2>5, <2>6 DEF UnderCheck, Shaped
  <1> QED BY <1>1, Inductive, PTL DEF Spec, NoUnloadUnderCheck

-----------------------------------------------------------------------------
(* The loops over the exit procedures.  X is the list of installed procedures; a loop   *)
(* that is not on top of the stack is called: a procedure of its is on top of it.        *)

Loop == [kind : {"exits"}, at : ExitProcs \cup {NIL, FREED}, ends : {"tidy", "stop", "failure"},
         was : Seq(ExitProcs), ran : Seq(ExitProcs), moved : SUBSET ExitProcs]

\* The procedures that were in the list at the start and have stayed in their place.
Stayed(f) == ToSet(f.was) \ f.moved

\* They are still in the list, in the same order, and what was installed later is before them.
StayedInPlace(f, X) ==
  /\ IsInjective(f.was)
  /\ Stayed(f) \subseteq ToSet(X)
  /\ \A a, b \in Stayed(f) : Precedes(f.was, a, b) => Precedes(X, a, b)
  /\ \A a \in Stayed(f), b \in ExitProcs : Precedes(X, a, b) => b \in Stayed(f)

RanInOrder(f) ==
  /\ ToSet(f.ran) \subseteq ToSet(f.was)
  /\ \A i, j \in 1..Len(f.ran) : i < j => Precedes(f.was, f.ran[i], f.ran[j])

\* What comes before p and stayed has run.
RanUpTo(f, p) == \A a \in Stayed(f) : Precedes(f.was, a, p) => a \in ToSet(f.ran)

Called(f, X) ==
  /\ f \in Loop /\ StayedInPlace(f, X) /\ RanInOrder(f)
  /\ f.at \in Stayed(f) \cup {FREED}
  /\ f.at # FREED => Len(f.ran) > 0 /\ f.ran[Len(f.ran)] = f.at /\ RanUpTo(f, f.at)

Goes(f, X) ==
  /\ f \in Loop /\ StayedInPlace(f, X) /\ RanInOrder(f)
  /\ f.at \in Stayed(f) \cup {NIL}
  /\ f.at # NIL => RanUpTo(f, f.at) /\ \A r \in ToSet(f.ran) : Precedes(f.was, r, f.at)
  /\ f.at = NIL => Stayed(f) \subseteq ToSet(f.ran)

\* Frame f can stand on frame b while active_error_handler is act.
Sits(b, f, act) ==
  /\ f.kind \in {"checked", "program", "exits", "errors", "exit proc", "error proc", "terminated"}
  /\ f.kind = "checked" => b = Host
  /\ f.kind = "program" => b \in {Host, Checked}
  /\ f.kind = "exit proc" => b.kind = "exits" /\ b.at \in {f.proc, FREED}
  /\ f.kind = "error proc" => b.kind = "errors" /\ act
  /\ f.kind = "errors" => b.kind \in {"program", "exit proc", "error proc"}
  /\ f.kind \in {"exits", "terminated"} => b.kind # "exits"

\* All but the top of a stack.
Stacked(s, act, X) ==
  /\ s[1] = Host
  /\ \A i \in 2..Len(s) : Sits(s[i - 1], s[i], act)
  /\ \A i \in 1..Len(s) : s[i].kind = "exits" /\ i < Len(s) => Called(s[i], X)

StackOK(s, act, X) == Stacked(s, act, X) /\ (TopKind(s) = "exits" => Goes(s[Len(s)], X))
Ready(s, X) == TopKind(s) = "exits" => Called(s[Len(s)], X)

ListsOK ==
  /\ exits \in Seq([proc : ExitProcs, priority : Priorities]) /\ IsInjective(Procs(exits))
  /\ errors \in Seq(ErrorProcs) /\ IsInjective(errors)

Statics ==
  /\ initialized \in BOOLEAN /\ dangling \in BOOLEAN /\ active \in BOOLEAN /\ handled \in BOOLEAN
  /\ jump.set \in BOOLEAN
  /\ unload \in {"immediate", "postpone", "requested"}
  /\ mode \in {"running", "exited", "killed", "freed", "lost"}

LInv ==
  /\ Statics /\ ListsOK
  /\ StackOK(stack, active, Procs(exits))

-----------------------------------------------------------------------------
(* Lists. *)

LEMMA PrecedesMembers ==
  ASSUME NEW S, NEW X \in Seq(S), NEW a, NEW b, Precedes(X, a, b)
  PROVE  a \in ToSet(X) /\ b \in ToSet(X) /\ a \in S /\ b \in S
  BY DEF Precedes, ToSet

LEMMA PrecedesOnce ==
  ASSUME NEW S, NEW X \in Seq(S), IsInjective(X), NEW a, NEW b, Precedes(X, a, b)
  PROVE  a # b /\ ~Precedes(X, b, a)
  BY DEF Precedes, IsInjective

LEMMA PrecedesTotal ==
  ASSUME NEW S, NEW X \in Seq(S), NEW a \in ToSet(X), NEW b \in ToSet(X), a # b
  PROVE  Precedes(X, a, b) \/ Precedes(X, b, a)
  <1>1. PICK i \in DOMAIN X : X[i] = a
    BY DEF ToSet
  <1>2. PICK j \in DOMAIN X : X[j] = b
    BY DEF ToSet
  <1>3. i < j \/ j < i
    BY <1>1, <1>2
  <1> QED BY <1>1, <1>2, <1>3 DEF Precedes

LEMMA PrecedesTransitive ==
  ASSUME NEW S, NEW X \in Seq(S), IsInjective(X), NEW a, NEW b, NEW c, Precedes(X, a, b), Precedes(X, b, c)
  PROVE  Precedes(X, a, c)
  <1>1. PICK i, j \in DOMAIN X : i < j /\ X[i] = a /\ X[j] = b
    BY DEF Precedes
  <1>2. PICK k, l \in DOMAIN X : k < l /\ X[k] = b /\ X[l] = c
    BY DEF Precedes
  <1>3. j = k
    BY <1>1, <1>2 DEF IsInjective
  <1>4. i < l
    BY <1>1, <1>2, <1>3
  <1> QED BY <1>1, <1>2, <1>4 DEF Precedes

\* A list without its k-th element.
LEMMA Removed ==
  ASSUME NEW S, NEW s \in Seq(S), NEW k \in 1..Len(s)
  PROVE  /\ RemoveAt(s, k) \in Seq(S) /\ Len(RemoveAt(s, k)) = Len(s) - 1
         /\ \A i \in 1..(Len(s) - 1) : RemoveAt(s, k)[i] = IF i < k THEN s[i] ELSE s[i + 1]
  <1>1. PICK n \in Nat : n = Len(s)
    OBVIOUS
  <1>2. k \in 1..n /\ k - 1 \in 0..n /\ k + 1 \in 1..(n + 1) /\ k \in Int
    BY <1>1
  <1>3. PICK a : a = SubSeq(s, 1, k - 1)
    OBVIOUS
  <1>4. PICK b : b = SubSeq(s, k + 1, n)
    OBVIOUS
  <1>5. a \in Seq(S) /\ Len(a) = k - 1 /\ \A i \in 1..(k - 1) : a[i] = s[i]
    <2>1. \A i \in 1..(k - 1) : s[i] \in S
      BY <1>1, <1>2
    <2> QED BY <1>1, <1>2, <1>3, <2>1, SubSeqProperties
  <1>6. b \in Seq(S) /\ Len(b) = n - k /\ \A i \in 1..(n - k) : b[i] = s[i + k]
    <2>1. \A i \in (k + 1)..n : s[i] \in S
      BY <1>1, <1>2
    <2> QED BY <1>1, <1>2, <1>4, <2>1
  <1>7. RemoveAt(s, k) = a \o b
    BY <1>1, <1>3, <1>4 DEF RemoveAt
  <1>8. PICK c : c = a \o b
    OBVIOUS
  <1>9. c \in Seq(S) /\ Len(c) = n - 1
    BY <1>1, <1>2, <1>5, <1>6, <1>8
  <1>10. \A i \in 1..(n - 1) : c[i] = IF i < k THEN s[i] ELSE s[i + 1]
    <2> SUFFICES ASSUME NEW i \in 1..(n - 1) PROVE c[i] = IF i < k THEN s[i] ELSE s[i + 1]
      OBVIOUS
    <2>1. CASE i < k
      BY <1>1, <1>2, <1>5, <1>6, <1>8, <2>1
    <2>2. CASE ~(i < k)
      <3>1. i - (k - 1) \in 1..(n - k) /\ i - (k - 1) + k = i + 1
        BY <1>1, <1>2, <2>2
      <3>2. c[i] = b[i - (k - 1)]
        BY <1>1, <1>2, <1>5, <1>6, <1>8, <2>2
      <3> QED BY <1>6, <2>2, <3>1, <3>2
    <2> QED BY <2>1, <2>2
  <1> QED BY <1>1, <1>7, <1>8, <1>9, <1>10

\* What taking p out of a list, and what putting it in front, does to the order.
Moved(X, Y, p) ==
  /\ ToSet(X) \ {p} \subseteq ToSet(Y)
  /\ \A a, b : a # p /\ b # p => (Precedes(Y, a, b) <=> Precedes(X, a, b))
  /\ \A a : ~Precedes(Y, a, p)

LEMMA RemovedOrder ==
  ASSUME NEW S, NEW X \in Seq(S), IsInjective(X), NEW k \in 1..Len(X)
  PROVE  /\ Moved(X, RemoveAt(X, k), X[k]) /\ IsInjective(RemoveAt(X, k))
         /\ X[k] \notin ToSet(RemoveAt(X, k))
  <1>1. PICK n \in Nat : n = Len(X)
    OBVIOUS
  <1>2. PICK Y : Y = RemoveAt(X, k)
    OBVIOUS
  <1>a. /\ Y \in Seq(S) /\ Len(Y) = n - 1 /\ k \in 1..n
        /\ \A i \in 1..(n - 1) : Y[i] = IF i < k THEN X[i] ELSE X[i + 1]
    BY <1>1, <1>2, Removed
  <1>b. n - 1 \in Nat /\ DOMAIN X = 1..n
    BY <1>1, <1>a
  <1>c. DOMAIN Y = 1..(n - 1)
    BY <1>a, <1>b
  <1>3. /\ Y \in Seq(S) /\ Len(Y) = n - 1 /\ k \in 1..n /\ DOMAIN Y = 1..(n - 1) /\ DOMAIN X = 1..n
        /\ n - 1 \in Nat
        /\ \A i \in 1..(n - 1) : Y[i] = IF i < k THEN X[i] ELSE X[i + 1]
    BY <1>a, <1>b, <1>c
  <1>4. \A i \in 1..n : i # k => \E j \in 1..(n - 1) : Y[j] = X[i] /\ j = IF i < k THEN i ELSE i - 1
    <2> SUFFICES ASSUME NEW i \in 1..n, i # k
                 PROVE  \E j \in 1..(n - 1) : Y[j] = X[i] /\ j = IF i < k THEN i ELSE i - 1
      OBVIOUS
    <2>1. CASE i < k
      BY <1>3, <2>1
    <2>2. CASE i > k
      <3>1. i - 1 \in 1..(n - 1) /\ ~(i - 1 < k) /\ i - 1 + 1 = i
        BY <1>3, <2>2
      <3> QED BY <1>3, <2>2, <3>1
    <2> QED BY <1>3, <2>1, <2>2
  <1>5. \A j \in 1..(n - 1) : \E i \in 1..n : Y[j] = X[i] /\ i # k /\ i = IF j < k THEN j ELSE j + 1
    BY <1>3
  <1>6. ToSet(X) \ {X[k]} \subseteq ToSet(Y)
    <2> SUFFICES ASSUME NEW i \in 1..n, X[i] # X[k] PROVE X[i] \in ToSet(Y)
      BY <1>3 DEF ToSet
    <2>1. PICK j \in 1..(n - 1) : Y[j] = X[i]
      BY <1>4
    <2> QED BY <1>3, <2>1 DEF ToSet
  <1>7. \A a, b : a # X[k] /\ b # X[k] /\ Precedes(X, a, b) => Precedes(Y, a, b)
    <2> SUFFICES ASSUME NEW a, NEW b, a # X[k], b # X[k], Precedes(X, a, b) PROVE Precedes(Y, a, b)
      OBVIOUS
    <2>1. PICK i, j \in 1..n : i < j /\ X[i] = a /\ X[j] = b
      BY <1>3 DEF Precedes
    <2>2. PICK u \in 1..(n - 1) : Y[u] = X[i] /\ u = IF i < k THEN i ELSE i - 1
      BY <1>4, <2>1
    <2>3. PICK v \in 1..(n - 1) : Y[v] = X[j] /\ v = IF j < k THEN j ELSE j - 1
      BY <1>4, <2>1
    <2>4. i # k /\ j # k
      BY <2>1
    <2>5. u < v
      BY <1>3, <2>1, <2>2, <2>3, <2>4
    <2> QED BY <1>3, <2>1, <2>2, <2>3, <2>5 DEF Precedes
  <1>8. \A a, b : Precedes(Y, a, b) => Precedes(X, a, b) /\ a # X[k] /\ b # X[k]
    <2> SUFFICES ASSUME NEW a, NEW b, Precedes(Y, a, b) PROVE Precedes(X, a, b) /\ a # X[k] /\ b # X[k]
      OBVIOUS
    <2>1. PICK u, v \in 1..(n - 1) : u < v /\ Y[u] = a /\ Y[v] = b
      BY <1>3 DEF Precedes
    <2>2. PICK i \in 1..n : Y[u] = X[i] /\ i # k /\ i = IF u < k THEN u ELSE u + 1
      BY <1>5
    <2>3. PICK j \in 1..n : Y[v] = X[j] /\ j # k /\ j = IF v < k THEN v ELSE v + 1
      BY <1>5
    <2>4. i < j
      BY <1>3, <2>1, <2>2, <2>3
    <2> QED BY <1>3, <2>1, <2>2, <2>3, <2>4 DEF Precedes, IsInjective
  <1>9. IsInjective(Y)
    <2> SUFFICES ASSUME NEW u \in 1..(n - 1), NEW v \in 1..(n - 1), Y[u] = Y[v] PROVE u = v
      BY <1>3 DEF IsInjective
    <2>2. PICK i \in 1..n : Y[u] = X[i] /\ i # k /\ i = IF u < k THEN u ELSE u + 1
      BY <1>5
    <2>3. PICK j \in 1..n : Y[v] = X[j] /\ j # k /\ j = IF v < k THEN v ELSE v + 1
      BY <1>5
    <2>4. i = j
      BY <1>3, <2>2, <2>3 DEF IsInjective
    <2> QED BY <1>3, <2>2, <2>3, <2>4
  <1>10. X[k] \notin ToSet(Y)
    BY <1>3, <1>5 DEF ToSet, IsInjective
  <1> QED BY <1>2, <1>6, <1>7, <1>8, <1>9, <1>10 DEF Moved

LEMMA FrontOrder ==
  ASSUME NEW S, NEW X \in Seq(S), IsInjective(X), NEW p \in S, p \notin ToSet(X)
  PROVE  /\ <<p>> \o X \in Seq(S) /\ Moved(X, <<p>> \o X, p) /\ IsInjective(<<p>> \o X)
  <1>1. PICK n \in Nat : n = Len(X) /\ DOMAIN X = 1..n
    OBVIOUS
  <1>2. PICK Y : Y = <<p>> \o X
    OBVIOUS
  <1>3. Y \in Seq(S) /\ Len(Y) = n + 1 /\ DOMAIN Y = 1..(n + 1) /\ Y[1] = p /\ \A i \in 1..n : Y[i + 1] = X[i]
    BY <1>1, <1>2
  <1>4. \A i \in 2..(n + 1) : i - 1 \in 1..n /\ Y[i] = X[i - 1]
    <2> SUFFICES ASSUME NEW i \in 2..(n + 1) PROVE i - 1 \in 1..n /\ Y[i] = X[i - 1]
      OBVIOUS
    <2>1. i - 1 \in 1..n /\ i - 1 + 1 = i
      BY <1>1
    <2> QED BY <1>3, <2>1
  <1>5. \A i \in 1..n : X[i] # p
    BY <1>1 DEF ToSet
  <1>6. ToSet(X) \ {p} \subseteq ToSet(Y)
    <2> SUFFICES ASSUME NEW i \in 1..n PROVE \E j \in 1..(n + 1) : Y[j] = X[i]
      BY <1>1, <1>3 DEF ToSet
    <2>1. i + 1 \in 1..(n + 1)
      BY <1>1
    <2> QED BY <1>3, <2>1
  <1>7. \A a, b : Precedes(X, a, b) => Precedes(Y, a, b)
    <2> SUFFICES ASSUME NEW i \in 1..n, NEW j \in 1..n, i < j PROVE Precedes(Y, X[i], X[j])
      BY <1>1 DEF Precedes
    <2>1. i + 1 \in 1..(n + 1) /\ j + 1 \in 1..(n + 1) /\ i + 1 < j + 1
      BY <1>1
    <2> QED BY <1>3, <2>1 DEF Precedes
  <1>8. \A a, b : Precedes(Y, a, b) => b # p /\ (a # p => Precedes(X, a, b))
    <2> SUFFICES ASSUME NEW i \in 1..(n + 1), NEW j \in 1..(n + 1), i < j
                 PROVE  Y[j] # p /\ (Y[i] # p => Precedes(X, Y[i], Y[j]))
      BY <1>3 DEF Precedes
    <2>1. j \in 2..(n + 1) /\ Y[j] = X[j - 1] /\ j - 1 \in 1..n
      BY <1>1, <1>4
    <2>2. ASSUME Y[i] # p PROVE Precedes(X, Y[i], Y[j])
      <3>1. i # 1
        BY <1>3, <2>2
      <3>2. i \in 2..(n + 1) /\ Y[i] = X[i - 1] /\ i - 1 \in 1..n /\ i - 1 < j - 1
        BY <1>1, <1>4, <3>1
      <3> QED BY <1>1, <2>1, <3>2 DEF Precedes
    <2> QED BY <1>5, <2>1, <2>2
  <1>9. IsInjective(Y)
    <2> SUFFICES ASSUME NEW i \in 1..(n + 1), NEW j \in 1..(n + 1), Y[i] = Y[j] PROVE i = j
      BY <1>3 DEF IsInjective
    <2>1. i = 1 \/ i \in 2..(n + 1)
      OBVIOUS
    <2>2. j = 1 \/ j \in 2..(n + 1)
      OBVIOUS
    <2>3. ASSUME i \in 2..(n + 1), j \in 2..(n + 1) PROVE i = j
      <3>1. i - 1 = j - 1
        BY <1>1, <1>4, <2>3 DEF IsInjective
      <3> QED BY <3>1
    <2> QED BY <1>3, <1>4, <1>5, <2>1, <2>2, <2>3
  <1> QED BY <1>2, <1>3, <1>6, <1>7, <1>8, <1>9 DEF Moved

-----------------------------------------------------------------------------
(* What happens to a loop over the exit procedures. *)

LEMMA CalledAfterMove ==
  ASSUME NEW X \in Seq(ExitProcs), NEW Y \in Seq(ExitProcs), NEW p \in ExitProcs, Moved(X, Y, p),
         NEW f, Called(f, X), NEW g \in Loop, g.was = f.was, g.ran = f.ran,
         Stayed(g) = Stayed(f) \ {p}, g.at = IF f.at = p THEN FREED ELSE f.at
  PROVE  Called(g, Y)
  <1>1. StayedInPlace(g, Y)
    <2>1. IsInjective(g.was) /\ Stayed(g) \subseteq ToSet(Y)
      BY DEF Called, StayedInPlace, Moved
    <2>2. ASSUME NEW a \in Stayed(g), NEW b \in Stayed(g), Precedes(g.was, a, b) PROVE Precedes(Y, a, b)
      <3>1. Precedes(X, a, b) /\ a # p /\ b # p
        BY <2>2 DEF Called, StayedInPlace
      <3> QED BY <3>1 DEF Moved
    <2>3. ASSUME NEW a \in Stayed(g), NEW b \in ExitProcs, Precedes(Y, a, b) PROVE b \in Stayed(g)
      <3>1. a # p /\ b # p
        BY <2>3 DEF Moved
      <3>2. Precedes(X, a, b)
        BY <2>3, <3>1 DEF Moved
      <3> QED BY <3>1, <3>2 DEF Called, StayedInPlace
    <2> QED BY <2>1, <2>2, <2>3 DEF StayedInPlace
  <1>2. RanInOrder(g)
    BY DEF Called, RanInOrder
  <1>3. g.at \in Stayed(g) \cup {FREED}
    BY DEF Called
  <1>4. ASSUME g.at # FREED PROVE Len(g.ran) > 0 /\ g.ran[Len(g.ran)] = g.at /\ RanUpTo(g, g.at)
    BY <1>4 DEF Called, RanUpTo
  <1> QED BY <1>1, <1>2, <1>3, <1>4 DEF Called

\* The node of p is unlinked and freed.
LEMMA UnlinkedCalled ==
  ASSUME NEW X \in Seq(ExitProcs), NEW Y \in Seq(ExitProcs), NEW p \in ExitProcs, Moved(X, Y, p),
         NEW f, Called(f, X)
  PROVE  Called(Unlinked(f, p), Y)
  <1>1. f \in Loop
    BY DEF Called
  <1>2. PICK g : g = Unlinked(f, p)
    OBVIOUS
  <1>3. /\ g \in Loop /\ g.was = f.was /\ g.ran = f.ran /\ g.moved = f.moved \cup {p}
        /\ g.at = IF f.at = p THEN FREED ELSE f.at
    BY <1>1, <1>2 DEF Unlinked, Loop
  <1>4. Stayed(g) = Stayed(f) \ {p}
    BY <1>3 DEF Stayed
  <1> QED BY <1>2, <1>3, <1>4, CalledAfterMove

\* p is installed that had no node.
LEMMA CalledAfterInstall ==
  ASSUME NEW X \in Seq(ExitProcs), NEW Y \in Seq(ExitProcs), NEW p \in ExitProcs, Moved(X, Y, p),
         NEW f, Called(f, X), p \notin ToSet(X)
  PROVE  Called(f, Y)
  <1>1. f \in Loop /\ f.at \in Stayed(f) \cup {FREED} /\ Stayed(f) \subseteq ToSet(X)
    BY DEF Called, StayedInPlace
  <1>2. f.at # p /\ Stayed(f) = Stayed(f) \ {p}
    BY <1>1, ProcsAssumption
  <1> QED BY <1>1, <1>2, CalledAfterMove

LEMMA ProcsOfExits ==
  ASSUME ListsOK
  PROVE  /\ Procs(exits) \in Seq(ExitProcs) /\ IsInjective(Procs(exits))
         /\ Len(Procs(exits)) = Len(exits) /\ Len(exits) \in Nat
         /\ \A i \in 1..Len(exits) : Procs(exits)[i] = exits[i].proc
         /\ DOMAIN exits = 1..Len(exits)
  <1>a. PICK R : R = [proc : ExitProcs, priority : Priorities]
    OBVIOUS
  <1>0. exits \in Seq(R)
    BY <1>a DEF ListsOK
  <1>1. PICK n \in Nat : n = Len(exits) /\ DOMAIN exits = 1..n
    BY <1>0
  <1>2. \A i \in 1..n : exits[i].proc \in ExitProcs
    <2>1. \A i \in 1..n : exits[i] \in R
      BY <1>0, <1>1
    <2> QED BY <1>a, <2>1
  <1>3. PICK X : X = Procs(exits)
    OBVIOUS
  <1>4. X = [i \in 1..n |-> exits[i].proc]
    BY <1>1, <1>3 DEF Procs
  <1>5. X \in [1..n -> ExitProcs]
    BY <1>2, <1>4
  <1>6. X \in Seq(ExitProcs) /\ Len(X) = n
    BY <1>5
  <1>7. IsInjective(X)
    BY <1>3 DEF ListsOK
  <1> QED BY <1>1, <1>3, <1>4, <1>6, <1>7

LEMMA LoopBegins ==
  ASSUME ListsOK, NEW ends \in {"tidy", "stop", "failure"}
  PROVE  Goes(ExitLoop(First, Procs(exits), ends), Procs(exits))
  <1>1. PICK X : X = Procs(exits)
    OBVIOUS
  <1>2. PICK n \in Nat : n = Len(exits)
    BY ProcsOfExits
  <1>3. X \in Seq(ExitProcs) /\ IsInjective(X) /\ Len(X) = n /\ \A i \in 1..n : X[i] = exits[i].proc
    BY <1>1, <1>2, ProcsOfExits
  <1>4. PICK h : h = First
    OBVIOUS
  <1>5. (n = 0 => h = NIL) /\ (n # 0 => h = X[1] /\ h \in ExitProcs)
    BY <1>2, <1>3, <1>4 DEF First, ListsOK
  <1>6. PICK f : f = ExitLoop(h, X, ends)
    OBVIOUS
  <1>7. f \in Loop /\ f.was = X /\ f.ran = <<>> /\ f.moved = {} /\ f.at = h
    BY <1>3, <1>5, <1>6 DEF ExitLoop, Loop
  <1>8. Stayed(f) = ToSet(X)
    BY <1>7 DEF Stayed
  <1>9. StayedInPlace(f, X)
    BY <1>3, <1>7, <1>8, PrecedesMembers DEF StayedInPlace
  <1>10. RanInOrder(f)
    BY <1>7 DEF RanInOrder, ToSet
  <1>11. CASE n = 0
    <2>1. ToSet(X) = {}
      BY <1>3, <1>11 DEF ToSet
    <2> QED BY <1>5, <1>7, <1>8, <1>9, <1>10, <1>11, <2>1, <1>1, <1>4, <1>6 DEF Goes
  <1>12. CASE n # 0
    <2>1. h \in ToSet(X) /\ h # NIL
      <3>1. 1 \in DOMAIN X
        BY <1>3, <1>12
      <3> QED BY <1>5, <1>12, <3>1, ProcsAssumption DEF ToSet
    <2>2. \A a : ~Precedes(X, a, h)
      BY <1>3, <1>5, <1>12 DEF Precedes, IsInjective
    <2>3. RanUpTo(f, h) /\ ToSet(f.ran) = {}
      BY <1>7, <2>2 DEF RanUpTo, ToSet
    <2> QED BY <1>1, <1>4, <1>6, <1>7, <1>8, <1>9, <1>10, <2>1, <2>3 DEF Goes
  <1> QED BY <1>11, <1>12

LEMMA LoopCalls ==
  ASSUME NEW X \in Seq(ExitProcs), NEW f, Goes(f, X), f.at \notin {NIL, FREED}
  PROVE  Called([f EXCEPT !.ran = Append(@, f.at)], X)
  <1>1. f \in Loop /\ StayedInPlace(f, X) /\ RanInOrder(f) /\ f.at \in Stayed(f) /\ f.at \in ExitProcs
    BY DEF Goes, Loop
  <1>2. PICK g : g = [f EXCEPT !.ran = Append(@, f.at)]
    OBVIOUS
  <1>3. PICK n \in Nat : n = Len(f.ran)
    BY <1>1 DEF Loop
  <1>a. f.ran \in Seq(ExitProcs) /\ f.was \in Seq(ExitProcs)
    BY <1>1 DEF Loop
  <1>b. PICK l : l = Append(f.ran, f.at)
    OBVIOUS
  <1>c. l \in Seq(ExitProcs)
    BY <1>1, <1>a, <1>b
  <1>d. g = [f EXCEPT !.ran = l]
    BY <1>2, <1>b
  <1>e. g \in Loop /\ g.was = f.was /\ g.moved = f.moved /\ g.at = f.at /\ g.ran = l
    BY <1>1, <1>c, <1>d DEF Loop
  <1>4. /\ g \in Loop /\ g.was = f.was /\ g.moved = f.moved /\ g.at = f.at /\ g.ran = Append(f.ran, f.at)
        /\ f.ran \in Seq(ExitProcs) /\ f.was \in Seq(ExitProcs)
    BY <1>a, <1>b, <1>e
  <1>5. PICK r : r = g.ran
    OBVIOUS
  <1>6. r \in Seq(ExitProcs) /\ Len(r) = n + 1 /\ r[n + 1] = f.at /\ \A i \in 1..n : r[i] = f.ran[i]
    BY <1>1, <1>3, <1>4, <1>5
  <1>7. ToSet(r) = ToSet(f.ran) \cup {f.at}
    <2>1. \A x \in ToSet(r) : x \in ToSet(f.ran) \cup {f.at}
      BY <1>3, <1>4, <1>6 DEF ToSet
    <2>2. f.at \in ToSet(r)
      <3>1. n + 1 \in DOMAIN r
        BY <1>6
      <3> QED BY <1>6, <3>1 DEF ToSet
    <2>3. \A i \in 1..n : r[i] \in ToSet(r)
      <3>1. \A i \in 1..n : i \in DOMAIN r
        BY <1>6
      <3> QED BY <3>1 DEF ToSet
    <2>4. DOMAIN f.ran = 1..n
      BY <1>3, <1>4
    <2>5. ToSet(f.ran) \subseteq ToSet(r)
      BY <1>6, <2>3, <2>4 DEF ToSet
    <2> QED BY <2>1, <2>2, <2>5
  <1>8. Stayed(g) = Stayed(f)
    BY <1>4 DEF Stayed
  <1>9. StayedInPlace(g, X)
    BY <1>1, <1>4, <1>8 DEF StayedInPlace
  <1>10. RanInOrder(g)
    <2>1. ToSet(r) \subseteq ToSet(f.was)
      BY <1>1, <1>7 DEF RanInOrder, Stayed
    <2>2. ASSUME NEW i \in 1..(n + 1), NEW j \in 1..(n + 1), i < j PROVE Precedes(f.was, r[i], r[j])
      <3>1. i \in 1..n
        BY <2>2
      <3>2. CASE j = n + 1
        <4>1. r[i] \in ToSet(f.ran)
          BY <1>3, <1>4, <1>6, <3>1 DEF ToSet
        <4>2. f.at # NIL
          OBVIOUS
        <4> QED BY <1>6, <3>2, <4>1, <4>2 DEF Goes
      <3>3. CASE j # n + 1
        BY <1>1, <1>3, <1>6, <2>2, <3>1, <3>3 DEF RanInOrder
      <3> QED BY <3>2, <3>3
    <2> QED BY <1>4, <1>5, <1>6, <2>1, <2>2 DEF RanInOrder
  <1>11. RanUpTo(g, g.at)
    BY <1>4, <1>5, <1>7, <1>8 DEF RanUpTo, Goes
  <1>12. Len(g.ran) > 0 /\ g.ran[Len(g.ran)] = g.at
    BY <1>4, <1>5, <1>6
  <1> QED BY <1>1, <1>2, <1>4, <1>8, <1>9, <1>10, <1>11, <1>12 DEF Called

\* What is called next after p in a list, NIL at its end.
LEMMA Successor ==
  ASSUME ListsOK, NEW p \in ToSet(Procs(exits))
  PROVE  LET X == Procs(exits)  q == NextOf(p) IN
         \/ q = NIL /\ \A b : ~Precedes(X, p, b)
         \/ /\ q \in ExitProcs /\ Precedes(X, p, q)
            /\ \A b : Precedes(X, p, b) => b = q \/ Precedes(X, q, b)
  <1>1. PICK X : X = Procs(exits)
    OBVIOUS
  <1>2. PICK n \in Nat : n = Len(exits)
    BY ProcsOfExits
  <1>3. /\ X \in Seq(ExitProcs) /\ IsInjective(X) /\ Len(X) = n /\ DOMAIN X = 1..n
        /\ \A i \in 1..n : X[i] = exits[i].proc
        /\ DOMAIN exits = 1..n
    BY <1>1, <1>2, ProcsOfExits
  <1>4. PICK k : k = PlaceOf(p)
    OBVIOUS
  <1>5. k \in 1..n /\ X[k] = p
    <2>1. \E i \in DOMAIN exits : exits[i].proc = p
      BY <1>1, <1>3 DEF ToSet
    <2>2. k \in DOMAIN exits /\ exits[k].proc = p
      BY <1>4, <2>1 DEF PlaceOf
    <2> QED BY <1>3, <2>2
  <1>6. \A b : Precedes(X, p, b) => \E j \in 1..n : k < j /\ X[j] = b
    BY <1>3, <1>5 DEF Precedes, IsInjective
  <1>7. CASE k = n
    <2>1. NextOf(p) = NIL
      BY <1>2, <1>4, <1>7 DEF NextOf
    <2>2. \A b : ~Precedes(X, p, b)
      BY <1>6, <1>7
    <2> QED BY <1>1, <2>1, <2>2
  <1>8. CASE k # n
    <2>1. k + 1 \in 1..n /\ k < k + 1
      BY <1>5, <1>8
    <2>2. NextOf(p) = X[k + 1]
      BY <1>2, <1>3, <1>4, <1>8, <2>1 DEF NextOf
    <2>3. Precedes(X, p, X[k + 1])
      BY <1>3, <1>5, <2>1 DEF Precedes
    <2>4. ASSUME NEW b, Precedes(X, p, b) PROVE b = X[k + 1] \/ Precedes(X, X[k + 1], b)
      <3>1. PICK j \in 1..n : k < j /\ X[j] = b
        BY <1>6, <2>4
      <3>2. j = k + 1 \/ k + 1 < j
        BY <1>5, <3>1
      <3> QED BY <1>3, <2>1, <3>1, <3>2 DEF Precedes
    <2>5. X[k + 1] \in ExitProcs
      BY <1>3, <2>1
    <2> QED BY <1>1, <2>2, <2>3, <2>4, <2>5
  <1> QED BY <1>7, <1>8

LEMMA LoopGoesOn ==
  ASSUME ListsOK, NEW f, Called(f, Procs(exits)), f.at # FREED
  PROVE  Goes([f EXCEPT !.at = NextOf(@)], Procs(exits))
  <1>1. PICK X : X = Procs(exits)
    OBVIOUS
  <1>2. X \in Seq(ExitProcs) /\ IsInjective(X)
    BY <1>1, ProcsOfExits
  <1>3. /\ f \in Loop /\ StayedInPlace(f, X) /\ RanInOrder(f) /\ f.at \in Stayed(f)
        /\ Len(f.ran) > 0 /\ f.ran[Len(f.ran)] = f.at /\ RanUpTo(f, f.at)
    BY <1>1 DEF Called
  <1>4. /\ f.was \in Seq(ExitProcs) /\ IsInjective(f.was) /\ f.ran \in Seq(ExitProcs) /\ f.at \in ExitProcs
        /\ Stayed(f) \subseteq ToSet(f.was) /\ Stayed(f) \subseteq ExitProcs
    <2>1. f.was \in Seq(ExitProcs) /\ IsInjective(f.was) /\ f.ran \in Seq(ExitProcs)
      BY <1>3 DEF Loop, StayedInPlace
    <2>2. ToSet(f.was) \subseteq ExitProcs
      BY <2>1 DEF ToSet
    <2> QED BY <1>3, <2>1, <2>2 DEF Stayed
  <1>5. PICK p : p = f.at
    OBVIOUS
  <1>6. PICK q : q = NextOf(p)
    OBVIOUS
  <1>7. p \in ToSet(X) /\ p \in Stayed(f) /\ p \in ExitProcs /\ p \in ToSet(f.was)
    BY <1>3, <1>4, <1>5 DEF StayedInPlace
  <1>8. \/ q = NIL /\ \A b : ~Precedes(X, p, b)
        \/ q \in ExitProcs /\ Precedes(X, p, q) /\ \A b : Precedes(X, p, b) => b = q \/ Precedes(X, q, b)
    BY <1>1, <1>6, <1>7, Successor
  <1>9. PICK g : g = [f EXCEPT !.at = NextOf(@)]
    OBVIOUS
  <1>10. g \in Loop /\ g.was = f.was /\ g.moved = f.moved /\ g.ran = f.ran /\ g.at = q
    BY <1>3, <1>5, <1>6, <1>8, <1>9 DEF Loop
  <1>11. Stayed(g) = Stayed(f) /\ StayedInPlace(g, X) /\ RanInOrder(g)
    BY <1>3, <1>10 DEF Stayed, StayedInPlace, RanInOrder
  <1>12. p \in ToSet(f.ran) /\ \A r \in ToSet(f.ran) : r = p \/ Precedes(f.was, r, p)
    <2>1. PICK n \in Nat : n = Len(f.ran)
      BY <1>4
    <2>2. n \in DOMAIN f.ran /\ f.ran[n] = p /\ DOMAIN f.ran = 1..n
      BY <1>3, <1>4, <1>5, <2>1
    <2>3. \A i \in 1..n : i = n \/ i < n
      BY <2>1
    <2> QED BY <1>3, <2>1, <2>2, <2>3 DEF RanInOrder, ToSet
  \* A procedure that stayed has run, or comes after p in the list too.
  <1>13. ASSUME NEW a \in Stayed(f), a \notin ToSet(f.ran) PROVE Precedes(X, p, a) /\ Precedes(f.was, p, a)
    <2>1. a # p /\ ~Precedes(f.was, a, p)
      BY <1>3, <1>5, <1>12, <1>13 DEF RanUpTo
    <2>2. a \in ToSet(f.was)
      BY <1>4
    <2>3. Precedes(f.was, p, a)
      BY <1>4, <1>7, <2>1, <2>2, PrecedesTotal
    <2> QED BY <1>3, <1>7, <2>3 DEF StayedInPlace
  <1>14. CASE q = NIL
    <2>1. Stayed(f) \subseteq ToSet(f.ran)
      <3>1. q \notin ExitProcs
        BY <1>14, ProcsAssumption
      <3> QED BY <1>8, <1>13, <3>1
    <2> QED BY <1>1, <1>9, <1>10, <1>11, <1>14, <2>1 DEF Goes
  <1>15. CASE q # NIL
    <2>1. q \in ExitProcs /\ Precedes(X, p, q) /\ \A b : Precedes(X, p, b) => b = q \/ Precedes(X, q, b)
      BY <1>8, <1>15
    <2>2. q \in Stayed(f)
      BY <1>3, <1>7, <2>1 DEF StayedInPlace
    <2>3. p # q /\ ~Precedes(X, q, p)
      BY <1>2, <2>1, PrecedesOnce
    <2>4. Precedes(f.was, p, q)
      <3>1. q \in ToSet(f.was)
        BY <1>4, <2>2
      <3>2. Precedes(f.was, p, q) \/ Precedes(f.was, q, p)
        BY <1>4, <1>7, <2>3, <3>1, PrecedesTotal
      <3> QED BY <1>3, <1>7, <2>2, <2>3, <3>2 DEF StayedInPlace
    <2>5. ASSUME NEW r \in ToSet(f.ran) PROVE Precedes(f.was, r, q)
      <3>1. CASE r = p
        BY <2>4, <3>1
      <3>2. CASE r # p
        <4>1. Precedes(f.was, r, p)
          BY <1>12, <3>2
        <4> QED BY <1>4, <2>4, <4>1, PrecedesTransitive
      <3> QED BY <3>1, <3>2
    <2>6. ASSUME NEW a \in Stayed(f), Precedes(f.was, a, q) PROVE a \in ToSet(f.ran)
      <3> SUFFICES ASSUME a \notin ToSet(f.ran) PROVE FALSE
        OBVIOUS
      <3>1. Precedes(X, p, a)
        BY <1>13
      <3>2. a # q /\ ~Precedes(f.was, q, a)
        BY <1>4, <2>6, PrecedesOnce
      <3>3. Precedes(X, q, a)
        BY <2>1, <3>1, <3>2
      <3>4. Precedes(X, a, q)
        BY <1>3, <2>2, <2>6 DEF StayedInPlace
      <3> QED BY <1>2, <3>3, <3>4, PrecedesOnce
    <2>7. RanUpTo(g, q)
      BY <1>10, <1>11, <2>6 DEF RanUpTo
    <2> QED BY <1>1, <1>9, <1>10, <1>11, <1>15, <2>2, <2>5, <2>7 DEF Goes
  <1> QED BY <1>14, <1>15

-----------------------------------------------------------------------------
(* What the stack operations do to the frames and the loops among them. *)

LEMMA PushStacked ==
  ASSUME NEW s, Shaped(s), NEW act, NEW X, Stacked(s, act, X), Ready(s, X),
         NEW e, Sits(s[Len(s)], e, act)
  PROVE  /\ Stacked(Append(s, e), act, X) /\ TopKind(Append(s, e)) = e.kind
         /\ Append(s, e)[Len(Append(s, e))] = e
  <1>1. PICK n \in Nat : n = Len(s) /\ n > 0
    BY DEF Shaped
  <1>2. PICK t : t = Append(s, e)
    OBVIOUS
  <1>3. Len(t) = n + 1 /\ t[n + 1] = e /\ \A i \in 1..n : t[i] = s[i]
    BY <1>1, <1>2, PushProps DEF Shaped
  <1>4. t[1] = Host
    BY <1>1, <1>3 DEF Stacked
  <1>5. ASSUME NEW i \in 2..(n + 1) PROVE Sits(t[i - 1], t[i], act)
    <2>1. CASE i = n + 1
      <3>1. i - 1 = n /\ n \in 1..n
        BY <1>1, <2>1
      <3> QED BY <1>1, <1>3, <2>1, <3>1
    <2>2. CASE i # n + 1
      <3>1. i \in 2..n /\ i \in 1..n /\ i - 1 \in 1..n
        BY <1>1, <2>2
      <3>2. Sits(s[i - 1], s[i], act)
        BY <1>1, <3>1 DEF Stacked
      <3> QED BY <1>3, <3>1, <3>2
    <2> QED BY <2>1, <2>2
  <1>6. ASSUME NEW i \in 1..(n + 1), t[i].kind = "exits", i < n + 1 PROVE Called(t[i], X)
    <2>1. i \in 1..n /\ t[i] = s[i]
      BY <1>1, <1>3, <1>6
    <2>2. CASE i = n
      BY <1>1, <1>6, <2>1, <2>2 DEF Ready, TopKind
    <2>3. CASE i # n
      <3>1. i < n
        BY <2>1, <2>3
      <3> QED BY <1>1, <1>6, <2>1, <3>1 DEF Stacked
    <2> QED BY <2>2, <2>3
  <1>7. Stacked(t, act, X)
    BY <1>3, <1>4, <1>5, <1>6 DEF Stacked
  <1> QED BY <1>2, <1>3, <1>7 DEF TopKind

LEMMA PopStacked ==
  ASSUME NEW s, Shaped(s), Len(s) > 1, NEW act, NEW X, Stacked(s, act, X)
  PROVE  /\ Shaped(Front(s)) /\ Stacked(Front(s), act, X) /\ Ready(Front(s), X)
         /\ Sits(Front(s)[Len(Front(s))], s[Len(s)], act)
         /\ Last(Front(s)) = Front(s)[Len(Front(s))] /\ TopKind(Front(s)) = Last(Front(s)).kind
         /\ Front(s)[1] = Host /\ Len(Front(s)) \in Nat /\ Len(Front(s)) > 0
  <1>1. PICK m \in Nat : m = Len(s) /\ m > 1
    BY DEF Shaped
  <1>2. PICK n \in Nat : n = m - 1 /\ n > 0 /\ n + 1 = m
    <2>1. m - 1 \in Nat /\ m - 1 > 0 /\ m - 1 + 1 = m
      BY <1>1
    <2> QED BY <2>1
  <1>3. PICK b : b = Front(s)
    OBVIOUS
  <1>4. Shaped(b) /\ Len(b) = n /\ \A i \in 1..n : b[i] = s[i]
    BY <1>1, <1>2, <1>3, Popped
  <1>5. b[1] = Host
    BY <1>2, <1>4 DEF Stacked
  <1>6. ASSUME NEW i \in 2..n PROVE Sits(b[i - 1], b[i], act)
    <2>1. i \in 1..n /\ i - 1 \in 1..n /\ i \in 2..m
      BY <1>2
    <2> QED BY <1>1, <1>4, <2>1 DEF Stacked
  <1>7. ASSUME NEW i \in 1..n, b[i].kind = "exits" PROVE Called(b[i], X)
    <2>1. i \in 1..m /\ i < m
      BY <1>2
    <2> QED BY <1>1, <1>4, <1>7, <2>1 DEF Stacked
  <1>8. Stacked(b, act, X)
    BY <1>4, <1>5, <1>6, <1>7 DEF Stacked
  <1>9. n \in 1..n
    BY <1>2
  <1>10. Ready(b, X)
    BY <1>4, <1>7, <1>9 DEF Ready, TopKind
  <1>11. Sits(b[n], s[m], act)
    <2>1. m \in 2..m /\ m - 1 = n
      BY <1>1, <1>2
    <2>2. Sits(s[m - 1], s[m], act)
      BY <1>1, <2>1 DEF Stacked
    <2> QED BY <1>4, <1>9, <2>1, <2>2
  <1>12. Last(b) = b[Len(b)] /\ TopKind(b) = Last(b).kind
    BY <1>4 DEF Last, TopKind
  <1> QED BY <1>1, <1>2, <1>3, <1>4, <1>5, <1>8, <1>10, <1>11, <1>12

LEMMA HostAlone ==
  ASSUME NEW s, s[1] = Host, Len(s) = 1, NEW act, NEW X
  PROVE  StackOK(s, act, X)
  <1>1. s[1].kind = "host"
    BY DEF Host
  <1> QED BY <1>1 DEF StackOK, Stacked, TopKind

LEMMA OtherActive ==
  ASSUME NEW s, NEW act, NEW X, Stacked(s, act, X), NEW a, a = TRUE \/ (Shaped(s) /\ ~HasErrorLoop(s))
  PROVE  Stacked(s, a, X)
  <1>1. CASE a = TRUE
    <2>1. \A i \in 2..Len(s) : Sits(s[i - 1], s[i], a)
      BY <1>1 DEF Stacked, Sits
    <2> QED BY <2>1 DEF Stacked
  <1>2. CASE Shaped(s) /\ ~HasErrorLoop(s)
    <2>1. ASSUME NEW i \in 2..Len(s) PROVE Sits(s[i - 1], s[i], a)
      <3>1. i - 1 \in 1..Len(s)
        BY <1>2 DEF Shaped
      <3>2. s[i - 1].kind # "errors"
        BY <1>2, <3>1 DEF HasErrorLoop
      <3>3. Sits(s[i - 1], s[i], act)
        BY DEF Stacked
      <3> QED BY <3>2, <3>3 DEF Sits
    <2> QED BY <2>1 DEF Stacked
  <1> QED BY <1>1, <1>2

LEMMA SameStack == ASSUME LInv, UNCHANGED <<stack, active, exits>> PROVE StackOK(stack, active, Procs(exits))'
  BY DEF LInv, StackOK, Stacked, Procs

\* The node of p, which was in the list X, is freed; the list is now Y.
LEMMA UnlinkedStacked ==
  ASSUME IInv, NEW X \in Seq(ExitProcs), NEW Y \in Seq(ExitProcs), NEW p \in ExitProcs, Moved(X, Y, p),
         Stacked(stack, active, X), TopKind(stack) # "exits"
  PROVE  StackOK(UnlinkedAll(p), active, Y)
  <1>1. PICK n \in Nat : n = Len(stack) /\ n > 0
    BY DEF IInv, Shaped
  <1>2. PICK t : t = UnlinkedAll(p)
    OBVIOUS
  <1>3. DOMAIN stack = 1..n
    BY <1>1 DEF IInv, Shaped
  <1>4. t = [i \in 1..n |-> Unlinked(stack[i], p)]
    BY <1>2, <1>3 DEF UnlinkedAll
  <1>5. Len(t) = n /\ \A i \in 1..n : t[i] = Unlinked(stack[i], p)
    <2>1. t \in Seq({t[i] : i \in 1..n}) /\ Len(t) = n
      BY <1>4
    <2> QED BY <1>4, <2>1
  <1>6. \A f : f.kind # "exits" => Unlinked(f, p) = f
    BY DEF Unlinked
  <1>7. ASSUME NEW i \in 1..n, stack[i].kind = "exits"
        PROVE  i < n /\ Called(stack[i], X) /\ Called(t[i], Y) /\ t[i].kind = "exits"
               /\ t[i].at = IF stack[i].at = p THEN FREED ELSE stack[i].at
    <2>1. i # n
      BY <1>1, <1>7 DEF TopKind
    <2>2. i < n
      BY <2>1
    <2>3. Called(stack[i], X)
      BY <1>1, <1>7, <2>2 DEF Stacked
    <2>4. Called(t[i], Y)
      BY <1>5, <2>3, UnlinkedCalled
    <2>5. t[i] \in Loop /\ stack[i] \in Loop
      BY <2>3, <2>4 DEF Called
    <2>6. t[i].kind = "exits"
      BY <2>5 DEF Loop
    <2>7. t[i].at = IF stack[i].at = p THEN FREED ELSE stack[i].at
      <3>1. t[i] = [stack[i] EXCEPT !.at = IF @ = p THEN FREED ELSE @, !.moved = @ \cup {p}]
        BY <1>5, <1>7 DEF Unlinked
      <3> QED BY <2>5, <3>1 DEF Loop
    <2> QED BY <2>2, <2>3, <2>4, <2>6, <2>7
  <1>8. t[1] = Host
    <2>1. stack[1] = Host /\ Host.kind # "exits" /\ 1 \in 1..n
      BY <1>1 DEF Stacked, Host
    <2> QED BY <1>5, <1>6, <2>1
  <1>9. ASSUME NEW i \in 2..n PROVE Sits(t[i - 1], t[i], active)
    <2>1. i \in 1..n /\ i - 1 \in 1..n
      BY <1>1
    <2>2. PICK b, f, c, g : b = stack[i - 1] /\ f = stack[i] /\ c = t[i - 1] /\ g = t[i]
      OBVIOUS
    <2>3. Sits(b, f, active)
      BY <1>1, <2>2 DEF Stacked
    <2>4. g.kind = f.kind /\ (f.kind # "exits" => g = f)
      BY <1>5, <1>6, <1>7, <2>1, <2>2
    <2>5. /\ c.kind = b.kind /\ (b.kind # "exits" => c = b)
          /\ (b.kind = "exits" => c.at = IF b.at = p THEN FREED ELSE b.at)
      BY <1>5, <1>6, <1>7, <2>1, <2>2
    <2>6. Host.kind # "exits" /\ Checked.kind # "exits"
      BY DEF Host, Checked
    <2>7. Sits(c, g, active)
      BY <2>3, <2>4, <2>5, <2>6 DEF Sits
    <2> QED BY <2>2, <2>7
  <1>10. ASSUME NEW i \in 1..n, t[i].kind = "exits" PROVE Called(t[i], Y) /\ i < n
    <2>1. stack[i].kind = "exits"
      BY <1>5, <1>6, <1>10
    <2> QED BY <1>7, <2>1
  <1>11. Stacked(t, active, Y)
    BY <1>5, <1>8, <1>9, <1>10 DEF Stacked
  <1>12. TopKind(t) # "exits"
    <2>1. n \in 1..n /\ ~(n < n)
      BY <1>1
    <2> QED BY <1>5, <1>10, <2>1 DEF TopKind
  <1> QED BY <1>2, <1>11, <1>12 DEF StackOK

\* p, which is not in the list X, is installed.
LEMMA InstalledStacked ==
  ASSUME NEW X \in Seq(ExitProcs), NEW Y \in Seq(ExitProcs), NEW p \in ExitProcs, Moved(X, Y, p),
         p \notin ToSet(X), NEW s, NEW act, Stacked(s, act, X), TopKind(s) # "exits"
  PROVE  StackOK(s, act, Y)
  BY CalledAfterInstall DEF StackOK, Stacked

-----------------------------------------------------------------------------
(* The lists. *)

LEMMA ExitsStep ==
  ASSUME ListsOK, NEW p \in ExitProcs
  PROVE  /\ Without(p) \in Seq([proc : ExitProcs, priority : Priorities])
         /\ IsInjective(Procs(Without(p))) /\ Procs(Without(p)) \in Seq(ExitProcs)
         /\ p \notin ToSet(Procs(Without(p)))
         /\ IsExit(p) => Moved(Procs(exits), Procs(Without(p)), p)
         /\ ~IsExit(p) => Without(p) = exits
  <1>1. PICK R : R = [proc : ExitProcs, priority : Priorities]
    OBVIOUS
  <1>2. exits \in Seq(R)
    BY <1>1 DEF ListsOK
  <1>3. PICK X : X = Procs(exits)
    OBVIOUS
  <1>4. PICK n \in Nat : n = Len(exits)
    BY <1>2
  <1>5. /\ X \in Seq(ExitProcs) /\ IsInjective(X) /\ Len(X) = n /\ DOMAIN exits = 1..n
        /\ DOMAIN X = 1..n /\ \A i \in 1..n : X[i] = exits[i].proc
    BY <1>3, <1>4, ProcsOfExits
  <1>6. CASE IsExit(p)
    <2>1. PICK k : k = PlaceOf(p)
      OBVIOUS
    <2>2. k \in 1..n /\ exits[k].proc = p
      BY <1>5, <1>6, <2>1 DEF PlaceOf, IsExit
    <2>3. PICK w : w = RemoveAt(exits, k)
      OBVIOUS
    <2>4. w = Without(p)
      BY <1>6, <2>1, <2>3 DEF Without
    <2>5. w \in Seq(R) /\ Len(w) = n - 1 /\ \A i \in 1..(n - 1) : w[i] = IF i < k THEN exits[i] ELSE exits[i + 1]
      BY <1>2, <1>4, <2>2, <2>3, Removed
    <2>6. PICK Y : Y = RemoveAt(X, k)
      OBVIOUS
    <2>7. Y \in Seq(ExitProcs) /\ Len(Y) = n - 1 /\ \A i \in 1..(n - 1) : Y[i] = IF i < k THEN X[i] ELSE X[i + 1]
      BY <1>5, <2>2, <2>6, Removed
    <2>8. n - 1 \in Nat /\ \A i \in 1..(n - 1) : i \in 1..n /\ i + 1 \in 1..n
      BY <2>2
    <2>9. DOMAIN w = 1..(n - 1) /\ DOMAIN Y = 1..(n - 1)
      BY <2>5, <2>7, <2>8
    <2>10. \A i \in 1..(n - 1) : w[i].proc = Y[i]
      BY <1>5, <2>5, <2>7, <2>8
    <2>11. Y = [i \in 1..(n - 1) |-> w[i].proc]
      BY <2>7, <2>8, <2>9, <2>10
    <2>12. Procs(w) = Y
      BY <2>9, <2>11 DEF Procs
    <2>13. X[k] = p
      BY <1>5, <2>2
    <2>14. Moved(X, Y, p) /\ IsInjective(Y) /\ p \notin ToSet(Y)
      BY <1>5, <2>2, <2>6, <2>13, RemovedOrder
    <2> QED BY <1>1, <1>3, <1>6, <2>4, <2>5, <2>7, <2>12, <2>14
  <1>7. CASE ~IsExit(p)
    <2>1. Without(p) = exits
      BY <1>7 DEF Without
    <2>2. p \notin ToSet(X)
      BY <1>5, <1>7 DEF IsExit, ToSet
    <2> QED BY <1>1, <1>2, <1>3, <1>5, <1>7, <2>1, <2>2
  <1> QED BY <1>6, <1>7

LEMMA MovedTwice ==
  ASSUME NEW X, NEW Y, NEW Z, NEW p, Moved(X, Y, p), Moved(Y, Z, p)
  PROVE  Moved(X, Z, p)
  BY DEF Moved

\* A record put in front of the list.
LEMMA ProcsOfFront ==
  ASSUME NEW R, NEW w \in Seq(R), NEW e \in R
  PROVE  /\ Procs(<<e>> \o w) = <<e.proc>> \o Procs(w) /\ <<e>> \o w \in Seq(R)
  <1>1. PICK n \in Nat : n = Len(w) /\ DOMAIN w = 1..n
    OBVIOUS
  <1>2. PICK v : v = <<e>> \o w
    OBVIOUS
  <1>3. /\ v \in Seq(R) /\ Len(v) = n + 1 /\ DOMAIN v = 1..(n + 1)
        /\ \A i \in 1..(n + 1) : v[i] = IF i = 1 THEN e ELSE w[i - 1]
    BY <1>1, <1>2
  <1>4. PICK X : X = Procs(w)
    OBVIOUS
  <1>5. X = [i \in 1..n |-> w[i].proc]
    BY <1>1, <1>4 DEF Procs
  <1>a. PICK A : A = {w[i].proc : i \in 1..n} \cup {e.proc}
    OBVIOUS
  <1>b. X \in [1..n -> A]
    BY <1>5, <1>a
  <1>6. X \in Seq(A) /\ Len(X) = n /\ \A i \in 1..n : X[i] = w[i].proc
    BY <1>5, <1>b
  <1>7. PICK q : q = e.proc
    OBVIOUS
  <1>8. PICK Z : Z = <<q>> \o X
    OBVIOUS
  <1>9. /\ Len(Z) = n + 1 /\ DOMAIN Z = 1..(n + 1) /\ Z = [i \in 1..(n + 1) |-> Z[i]]
        /\ \A i \in 1..(n + 1) : Z[i] = IF i = 1 THEN q ELSE X[i - 1]
    <2>1. q \in A
      BY <1>7, <1>a
    <2> QED BY <1>6, <1>8, <2>1
  <1>10. \A i \in 1..(n + 1) : i # 1 => i - 1 \in 1..n
    OBVIOUS
  <1>11. \A i \in 1..(n + 1) : Z[i] = v[i].proc
    BY <1>3, <1>6, <1>7, <1>9, <1>10
  <1>12. Z = [i \in 1..(n + 1) |-> v[i].proc]
    BY <1>9, <1>11
  <1>13. Procs(v) = Z
    BY <1>3, <1>12 DEF Procs
  <1> QED BY <1>2, <1>3, <1>4, <1>7, <1>8, <1>13

LEMMA RemoveExitStep ==
  ASSUME IInv, LInv, NEW p \in ExitProcs, RemoveExit(p)
  PROVE  StackOK(stack', active', Procs(exits')) /\ ListsOK'
  <1>1. IsExit(p) /\ exits' = Without(p) /\ stack' = UnlinkedAll(p) /\ UNCHANGED <<errors, active>> /\ InCobol
    BY DEF RemoveExit, Deed
  <1>2. ListsOK /\ Stacked(stack, active, Procs(exits)) /\ TopKind(stack) # "exits"
    <2>1. Shaped(stack)
      BY DEF IInv
    <2>2. Top = Last(stack) /\ Last(stack).kind = TopKind(stack)
      BY <2>1, TopOf DEF Top
    <2> QED BY <1>1, <2>2 DEF LInv, StackOK, InCobol
  <1>3. /\ exits' \in Seq([proc : ExitProcs, priority : Priorities]) /\ IsInjective(Procs(exits'))
        /\ Procs(exits') \in Seq(ExitProcs) /\ Moved(Procs(exits), Procs(exits'), p)
        /\ Procs(exits) \in Seq(ExitProcs)
    BY <1>1, <1>2, ExitsStep, ProcsOfExits
  <1>4. ListsOK'
    BY <1>1, <1>2, <1>3 DEF ListsOK, Procs
  <1>5. StackOK(UnlinkedAll(p), active, Procs(exits'))
    BY <1>2, <1>3, UnlinkedStacked
  <1> QED BY <1>1, <1>4, <1>5

LEMMA InstallExitStep ==
  ASSUME IInv, LInv, NEW p \in ExitProcs, NEW q \in Priorities, InstallExit(p, q)
  PROVE  StackOK(stack', active', Procs(exits')) /\ ListsOK'
  <1>0. PICK e : e = [proc |-> p, priority |-> q]
    OBVIOUS
  <1>1. /\ exits' = <<e>> \o Without(p) /\ stack' = (IF IsExit(p) THEN UnlinkedAll(p) ELSE stack)
        /\ UNCHANGED <<errors, active>> /\ InCobol
    BY <1>0 DEF InstallExit, Deed
  <1>2. ListsOK /\ Stacked(stack, active, Procs(exits)) /\ TopKind(stack) # "exits"
    <2>1. Shaped(stack)
      BY DEF IInv
    <2>2. Top = Last(stack) /\ Last(stack).kind = TopKind(stack)
      BY <2>1, TopOf DEF Top
    <2> QED BY <1>1, <2>2 DEF LInv, StackOK, InCobol
  <1>3. PICK R : R = [proc : ExitProcs, priority : Priorities]
    OBVIOUS
  <1>4. PICK w : w = Without(p)
    OBVIOUS
  <1>5. /\ w \in Seq(R) /\ IsInjective(Procs(w)) /\ Procs(w) \in Seq(ExitProcs) /\ p \notin ToSet(Procs(w))
        /\ (IsExit(p) => Moved(Procs(exits), Procs(w), p)) /\ (~IsExit(p) => w = exits)
    BY <1>2, <1>3, <1>4, ExitsStep
  <1>6. e \in R /\ e.proc = p
    BY <1>0, <1>3
  <1>7. exits' \in Seq(R) /\ Procs(exits') = <<p>> \o Procs(w)
    BY <1>1, <1>4, <1>5, <1>6, ProcsOfFront
  <1>8. /\ Procs(exits') \in Seq(ExitProcs) /\ IsInjective(Procs(exits'))
        /\ Moved(Procs(w), Procs(exits'), p) /\ Procs(exits) \in Seq(ExitProcs)
    BY <1>2, <1>5, <1>7, FrontOrder, ProcsOfExits
  <1>9. ListsOK'
    BY <1>1, <1>2, <1>3, <1>7, <1>8 DEF ListsOK, Procs
  <1>10. CASE IsExit(p)
    <2>1. Moved(Procs(exits), Procs(exits'), p)
      BY <1>5, <1>8, <1>10, MovedTwice
    <2>2. StackOK(UnlinkedAll(p), active, Procs(exits'))
      BY <1>2, <1>8, <2>1, UnlinkedStacked
    <2> QED BY <1>1, <1>9, <1>10, <2>2
  <1>11. CASE ~IsExit(p)
    <2>1. StackOK(stack, active, Procs(exits'))
      BY <1>2, <1>5, <1>8, <1>11, InstalledStacked
    <2> QED BY <1>1, <1>9, <1>11, <2>1
  <1> QED BY <1>10, <1>11

LEMMA ErrorListsOK ==
  ASSUME LInv, NEW p \in ErrorProcs, InstallError(p) \/ RemoveError(p)
  PROVE  ListsOK' /\ UNCHANGED <<stack, active, exits>>
  <1>1. /\ exits \in Seq([proc : ExitProcs, priority : Priorities]) /\ IsInjective(Procs(exits))
        /\ errors \in Seq(ErrorProcs) /\ IsInjective(errors)
    BY DEF LInv, ListsOK
  <1>2. UNCHANGED <<stack, active, exits>>
    BY DEF InstallError, RemoveError, Undefined, SetErrors, handlers
  <1>3. errors' \in Seq(ErrorProcs) /\ IsInjective(errors')
    <2>1. CASE errors' = errors
      BY <1>1, <2>1
    <2>2. CASE p \notin ToSet(errors) /\ errors' = <<p>> \o errors
      BY <1>1, <2>2, FrontOrder
    <2>3. CASE p \in ToSet(errors) /\ errors' = RemoveAt(errors, CHOOSE i \in DOMAIN errors : errors[i] = p)
      <3>1. PICK k : k = CHOOSE i \in DOMAIN errors : errors[i] = p
        OBVIOUS
      <3>2. k \in DOMAIN errors
        BY <2>3, <3>1 DEF ToSet
      <3>3. k \in 1..Len(errors)
        BY <1>1, <3>2
      <3> QED BY <1>1, <2>3, <3>1, <3>3, Removed, RemovedOrder
    <2> QED BY <2>1, <2>2, <2>3 DEF InstallError, RemoveError, Undefined, SetErrors, handlers
  <1> QED BY <1>1, <1>2, <1>3 DEF ListsOK, Procs

-----------------------------------------------------------------------------
(* The steps. *)

\* The lists of procedures stay as they are.
LEMMA ListsKept == ASSUME LInv, UNCHANGED <<exits, errors>> PROVE ListsOK'
  BY DEF LInv, ListsOK, Procs

LEMMA BeginsStacked ==
  ASSUME LInv, NEW s, Shaped(s), NEW act, Stacked(s, act, Procs(exits)), TopKind(s) # "exits",
         NEW ends \in {"tidy", "stop", "failure"}, StartExits(s, ends)
  PROVE  StackOK(stack', act, Procs(exits))
  <1>1. PICK e : e = ExitLoop(First, Procs(exits), ends)
    OBVIOUS
  <1>2. e.kind = "exits" /\ Goes(e, Procs(exits))
    BY <1>1, LoopBegins DEF LInv, ExitLoop
  <1>3. Sits(s[Len(s)], e, act)
    BY <1>2 DEF Sits, TopKind
  <1>4. Ready(s, Procs(exits))
    BY DEF Ready
  <1>5. stack' = Append(s, e)
    BY <1>1 DEF StartExits
  <1> QED BY <1>2, <1>3, <1>4, <1>5, PushStacked DEF StackOK

LEMMA HostIsAlone ==
  ASSUME IInv, LInv, Running("host")
  PROVE  /\ stack[1] = Host /\ Len(stack) = 1 /\ stack[Len(stack)] = Host
         /\ Stacked(stack, active, Procs(exits)) /\ Ready(stack, Procs(exits))
         /\ TopKind(stack) = "host" /\ Shaped(stack) /\ ListsOK
  <1>1. Len(stack) = 1 /\ TopKind(stack) = "host" /\ Shaped(stack)
    BY At
  <1>2. Stacked(stack, active, Procs(exits)) /\ stack[1] = Host /\ ListsOK
    BY DEF LInv, StackOK, Stacked
  <1> QED BY <1>1, <1>2 DEF Ready

LEMMA HostListStep ==
  ASSUME IInv, LInv, HostNext
  PROVE  StackOK(stack', active', Procs(exits')) /\ ListsOK'
  <1>1. CASE CobInit
    <2>1. UNCHANGED <<stack, active>> /\ exits' = <<>> /\ errors' = <<>>
      BY <1>1 DEF CobInit
    <2>2. StackOK(stack', active', Procs(exits'))
      BY <1>1, <2>1, HostIsAlone, HostAlone DEF CobInit
    <2>3. Procs(exits') = <<>>
      BY <2>1 DEF Procs
    <2> QED BY <2>1, <2>2, <2>3 DEF ListsOK, IsInjective, Procs
  <1>2. CASE CobCall
    <2>1. stack' = Append(stack, Program) /\ UNCHANGED <<exits, errors, active>> /\ Running("host")
      BY <1>2 DEF CobCall, handlers
    <2>2. Sits(stack[Len(stack)], Program, active) /\ Program.kind # "exits"
      BY <2>1, HostIsAlone DEF Sits, Program
    <2> QED BY <2>1, <2>2, HostIsAlone, PushStacked, ListsKept DEF StackOK
  <1>3. CASE CobCallWithExceptionCheck
    <2>1. stack' = stack \o <<Checked, Program>> /\ UNCHANGED <<exits, errors, active>> /\ Running("host")
      BY <1>3 DEF CobCallWithExceptionCheck, handlers
    <2>2. PICK t : t = Append(stack, Checked)
      OBVIOUS
    <2>3. stack \in Seq(ToSet(stack))
      BY DEF IInv, Shaped
    <2>4. stack' = Append(t, Program)
      BY <2>1, <2>2, <2>3, TwoPushed
    <2>5. Sits(stack[Len(stack)], Checked, active) /\ Checked.kind # "exits"
      BY <2>1, HostIsAlone DEF Sits, Checked
    <2>6. Stacked(t, active, Procs(exits)) /\ TopKind(t) = "checked" /\ t[Len(t)] = Checked
      BY <2>1, <2>2, <2>5, HostIsAlone, PushStacked DEF Checked
    <2>7. Shaped(t)
      <3>1. Pushable(stack, Checked)
        BY <2>1, HostIsAlone DEF Pushable, Checked
      <3> QED BY <2>1, <2>2, <3>1, HostIsAlone, Pushed
    <2>8. Sits(t[Len(t)], Program, active) /\ Program.kind # "exits"
      BY <2>6 DEF Sits, Program
    <2>9. Ready(t, Procs(exits))
      BY <2>6 DEF Ready
    <2>10. Stacked(stack', active, Procs(exits)) /\ TopKind(stack') = Program.kind
      BY <2>4, <2>6, <2>7, <2>8, <2>9, PushStacked
    <2> QED BY <2>1, <2>8, <2>10, ListsKept DEF StackOK
  <1>4. CASE CobTidy
    <2>1. StartExits(stack, "tidy") /\ UNCHANGED <<exits, errors, active>> /\ Running("host")
      BY <1>4 DEF CobTidy, handlers
    <2> QED BY <2>1, HostIsAlone, BeginsStacked, ListsKept
  <1>5. CASE HostEnds
    <2>1. UNCHANGED <<stack, active, exits, errors>>
      BY <1>5 DEF HostEnds, handlers
    <2> QED BY <2>1, SameStack, ListsKept
  <1> QED BY <1>1, <1>2, <1>3, <1>4, <1>5 DEF HostNext

LEMMA InControl ==
  ASSUME IInv, LInv, InCobol
  PROVE  /\ Stacked(stack, active, Procs(exits)) /\ Shaped(stack) /\ Ready(stack, Procs(exits))
         /\ TopKind(stack) \in {"program", "exit proc", "error proc"}
         /\ stack[Len(stack)].kind \in {"program", "exit proc", "error proc"}
  <1>1. Shaped(stack) /\ Stacked(stack, active, Procs(exits))
    BY DEF IInv, LInv, StackOK
  <1>2. TopKind(stack) \in {"program", "exit proc", "error proc"}
    BY <1>1, TopOf DEF InCobol, Top
  <1> QED BY <1>1, <1>2 DEF Ready, TopKind

LEMMA CobolListStep ==
  ASSUME IInv, LInv, CobolNext
  PROVE  StackOK(stack', active', Procs(exits')) /\ ListsOK'
  <1>1. ASSUME NEW p \in ExitProcs, RemoveExit(p) PROVE StackOK(stack', active', Procs(exits')) /\ ListsOK'
    BY <1>1, RemoveExitStep
  <1>2. ASSUME NEW p \in ExitProcs, NEW q \in Priorities, InstallExit(p, q)
        PROVE  StackOK(stack', active', Procs(exits')) /\ ListsOK'
    BY <1>2, InstallExitStep
  <1>3. ASSUME NEW p \in ErrorProcs, InstallError(p) \/ RemoveError(p)
        PROVE  StackOK(stack', active', Procs(exits')) /\ ListsOK'
    BY <1>3, ErrorListsOK, SameStack
  <1>4. ASSUME NEW fatal \in BOOLEAN, RuntimeError(fatal) PROVE StackOK(stack', active', Procs(exits')) /\ ListsOK'
    <2>1. InCobol /\ UNCHANGED <<exits, errors>>
      BY <1>4 DEF RuntimeError, Deed
    <2>2. CASE errors # <<>> /\ ~active
      <3>1. PICK e : e = ErrorLoop(errors, fatal)
        OBVIOUS
      <3>2. e.kind = "errors" /\ stack' = Append(stack, e) /\ active' = TRUE
        BY <1>4, <2>2, <3>1 DEF RuntimeError, ErrorLoop
      <3>3. Stacked(stack, TRUE, Procs(exits))
        BY <2>1, InControl, OtherActive
      <3>4. Sits(stack[Len(stack)], e, TRUE)
        BY <2>1, <3>2, InControl DEF Sits
      <3>5. Stacked(stack', TRUE, Procs(exits)) /\ TopKind(stack') = "errors"
        <4>1. Shaped(stack) /\ Ready(stack, Procs(exits))
          BY <2>1, InControl
        <4>2. /\ Stacked(Append(stack, e), TRUE, Procs(exits)) /\ TopKind(Append(stack, e)) = e.kind
          BY <3>3, <3>4, <4>1, PushStacked
        <4> QED BY <3>2, <4>2
      <3> QED BY <2>1, <3>2, <3>5, ListsKept DEF StackOK
    <2>3. CASE ~(errors # <<>> /\ ~active)
      <3>1. (IF fatal THEN StartExits(stack, "failure") ELSE UNCHANGED stack) /\ UNCHANGED <<active, exits, errors>>
        BY <1>4, <2>3 DEF RuntimeError
      <3>2. CASE fatal
        BY <2>1, <3>1, <3>2, InControl, BeginsStacked, ListsKept
      <3>3. CASE ~fatal
        BY <3>1, <3>3, SameStack, ListsKept
      <3> QED BY <3>2, <3>3
    <2> QED BY <2>2, <2>3
  <1>5. ASSUME StopRun PROVE StackOK(stack', active', Procs(exits')) /\ ListsOK'
    <2>1. InCobol /\ StartExits(stack, "stop") /\ UNCHANGED <<exits, errors, active>>
      BY <1>5 DEF StopRun, Deed, handlers
    <2> QED BY <2>1, InControl, BeginsStacked, ListsKept
  <1> QED BY <1>1, <1>2, <1>3, <1>4, <1>5 DEF CobolNext

\* What is on top, and what is below it.
LEMMA OnTop ==
  ASSUME IInv, LInv, NEW k, Running(k), k # "host"
  PROVE  /\ Below = Front(stack) /\ Shaped(Below) /\ Stacked(Below, active, Procs(exits)) /\ Ready(Below, Procs(exits))
         /\ Top.kind = k /\ Sits(Below[Len(Below)], Top, active)
         /\ Last(Below) = Below[Len(Below)] /\ TopKind(Below) = Last(Below).kind /\ Below[1] = Host
         /\ Len(Below) \in Nat /\ Len(Below) > 0
         /\ (k = "exits" => Goes(Top, Procs(exits)))
  <1>1. /\ Shaped(stack) /\ Len(stack) > 1 /\ Top = stack[Len(stack)] /\ Top.kind = k /\ TopKind(stack) = k
    BY At
  <1>2. Stacked(stack, active, Procs(exits)) /\ (k = "exits" => Goes(Top, Procs(exits)))
    BY <1>1 DEF LInv, StackOK
  <1> QED BY <1>1, <1>2, PopStacked DEF Below

LEMMA ProgramReturnsList == ASSUME IInv, LInv, ProgramReturns PROVE StackOK(stack', active', Procs(exits')) /\ ListsOK'
  <1>1. Running("program") /\ UNCHANGED <<exits, errors, active>>
    BY DEF ProgramReturns, handlers
  <1>2. /\ Shaped(Below) /\ Stacked(Below, active, Procs(exits)) /\ Sits(Below[Len(Below)], Top, active)
        /\ Last(Below) = Below[Len(Below)] /\ TopKind(Below) = Last(Below).kind /\ Top.kind = "program"
        /\ Len(Below) \in Nat /\ Len(Below) > 0
    BY <1>1, OnTop
  <1>3. CASE Last(Below) = Checked
    <2>1. stack' = Front(Below)
      BY <1>3 DEF ProgramReturns
    <2>2. TopKind(Below) = "checked"
      BY <1>2, <1>3 DEF Checked
    <2>3. Len(Below) # 1
      BY <1>2, <2>2, TopOf
    <2>4. Len(Below) > 1
      <3>1. PICK m \in Nat : m = Len(Below)
        BY <1>2
      <3> QED BY <1>2, <2>3, <3>1
    <2>5. /\ Stacked(Front(Below), active, Procs(exits)) /\ Sits(Front(Below)[Len(Front(Below))], Checked, active)
          /\ TopKind(Front(Below)) = Last(Front(Below)).kind /\ Last(Front(Below)) = Front(Below)[Len(Front(Below))]
      BY <1>2, <1>3, <2>4, PopStacked
    <2>6. TopKind(Front(Below)) = "host"
      BY <2>5 DEF Sits, Checked, Host
    <2> QED BY <1>1, <2>1, <2>5, <2>6, ListsKept DEF StackOK
  <1>4. CASE Last(Below) # Checked
    <2>1. stack' = Below
      BY <1>4 DEF ProgramReturns
    <2>2. Last(Below) = Host
      BY <1>2, <1>4 DEF Sits
    <2>3. TopKind(Below) = "host"
      BY <1>2, <2>2 DEF Host
    <2> QED BY <1>1, <1>2, <2>1, <2>3, ListsKept DEF StackOK
  <1> QED BY <1>3, <1>4

LEMMA CallExitProcList == ASSUME IInv, LInv, CallExitProc PROVE StackOK(stack', active', Procs(exits')) /\ ListsOK'
  <1>1. Running("exits") /\ UNCHANGED <<exits, errors, active>> /\ Top.at \notin {NIL, FREED}
    BY DEF CallExitProc, handlers
  <1>2. /\ Shaped(Below) /\ Stacked(Below, active, Procs(exits)) /\ Sits(Below[Len(Below)], Top, active)
        /\ Ready(Below, Procs(exits)) /\ Goes(Top, Procs(exits)) /\ Top.kind = "exits" /\ Below = Front(stack)
    BY <1>1, OnTop
  <1>3. PICK e : e = [Top EXCEPT !.ran = Append(@, Top.at)]
    OBVIOUS
  <1>4. Called(e, Procs(exits))
    <2>1. Procs(exits) \in Seq(ExitProcs)
      BY ProcsOfExits DEF LInv
    <2> QED BY <1>1, <1>2, <1>3, <2>1, LoopCalls
  <1>5. e.kind = "exits" /\ e.at = Top.at /\ "ends" \in DOMAIN e /\ "kind" \in DOMAIN e /\ e.ends = Top.ends
    <2>1. Top \in Loop
      BY <1>2 DEF Goes
    <2> QED BY <1>3, <2>1 DEF Loop
  <1>6. Sits(Below[Len(Below)], e, active)
    BY <1>2, <1>5 DEF Sits
  <1>7. PICK t : t = Append(Below, e)
    OBVIOUS
  <1>8. Stacked(t, active, Procs(exits)) /\ TopKind(t) = "exits" /\ t[Len(t)] = e
    BY <1>2, <1>5, <1>6, <1>7, PushStacked
  <1>9. Shaped(t)
    <2>1. Shaped(stack) /\ Len(stack) > 1 /\ Top = Last(stack)
      BY <1>1, At
    <2>2. Alike(Last(stack), e)
      BY <1>2, <1>5, <2>1 DEF Alike
    <2> QED BY <1>2, <1>7, <2>1, <2>2, Replaced
  <1>10. PICK x : x = ExitProc(Top.at)
    OBVIOUS
  <1>11. x.kind = "exit proc" /\ x.proc = Top.at
    BY <1>10 DEF ExitProc
  <1>12. Sits(t[Len(t)], x, active)
    BY <1>5, <1>8, <1>11 DEF Sits
  <1>13. Ready(t, Procs(exits))
    BY <1>4, <1>8 DEF Ready
  <1>14. Stacked(Append(t, x), active, Procs(exits)) /\ TopKind(Append(t, x)) = "exit proc"
    <2>1. Stacked(t, active, Procs(exits))
      BY <1>8
    <2>2. /\ Stacked(Append(t, x), active, Procs(exits)) /\ TopKind(Append(t, x)) = x.kind
      BY <1>9, <1>12, <1>13, <2>1, PushStacked
    <2> QED BY <1>11, <2>2
  <1>15. stack' = Append(t, x)
    <2>1. Below \in Seq(ToSet(Below))
      BY <1>2 DEF Shaped
    <2>2. stack' = Below \o <<e, x>>
      BY <1>3, <1>10 DEF CallExitProc
    <2> QED BY <1>7, <2>1, <2>2, TwoPushed
  <1> QED BY <1>1, <1>14, <1>15, ListsKept DEF StackOK

LEMMA AboveOne == \A n \in Nat : n > 0 /\ n # 1 => n > 1
  OBVIOUS

\* A frame takes the place of the one below the top.
LEMMA BackStacked ==
  ASSUME IInv, LInv, NEW k \in {"exit proc", "error proc"}, Running(k),
         NEW e, e.kind = Last(Below).kind, e.kind = "exits" => Goes(e, Procs(exits))
  PROVE  StackOK(Append(Front(Below), e), active, Procs(exits))
  <1>1. /\ Shaped(Below) /\ Stacked(Below, active, Procs(exits)) /\ Sits(Below[Len(Below)], Top, active)
        /\ Last(Below) = Below[Len(Below)] /\ TopKind(Below) = Last(Below).kind /\ Top.kind = k
        /\ Len(Below) \in Nat /\ Len(Below) > 0
    BY OnTop
  <1>2. Last(Below).kind \in {"exits", "errors"}
    BY <1>1 DEF Sits
  <1>3. Len(Below) # 1
    BY <1>1, <1>2, TopOf
  <1>4. Len(Below) > 1
    <2>1. Len(Below) \in Nat /\ Len(Below) > 0
      BY <1>1
    <2> QED BY <1>3, <2>1, AboveOne
  <1>5. PICK b : b = Front(Below)
    OBVIOUS
  <1>6. Shaped(b) /\ Stacked(b, active, Procs(exits)) /\ Ready(b, Procs(exits)) /\ Sits(b[Len(b)], Last(Below), active)
    BY <1>1, <1>4, <1>5, PopStacked
  <1>7. Sits(b[Len(b)], e, active)
    BY <1>2, <1>6 DEF Sits
  <1>8. /\ Stacked(Append(b, e), active, Procs(exits)) /\ TopKind(Append(b, e)) = e.kind
        /\ Append(b, e)[Len(Append(b, e))] = e
    BY <1>6, <1>7, PushStacked
  <1> QED BY <1>5, <1>8, Zenon DEF StackOK

LEMMA ProcReturnsList ==
  ASSUME IInv, LInv, NEW more, ExitProcReturns \/ ErrorProcReturns(more)
  PROVE  StackOK(stack', active', Procs(exits')) /\ ListsOK'
  <1>1. CASE ExitProcReturns
    <2>1. Running("exit proc")
      BY <1>1 DEF ExitProcReturns
    <2>2. CASE Last(Below).at = FREED
      <3>1. UNCHANGED <<stack, active, exits, errors>>
        BY <1>1, <2>2 DEF ExitProcReturns, Undefined, handlers
      <3> QED BY <3>1, SameStack, ListsKept
    <2>3. CASE Last(Below).at # FREED
      <3>1. PICK loop : loop = Last(Below)
        OBVIOUS
      <3>2. PICK e : e = [loop EXCEPT !.at = NextOf(@)]
        OBVIOUS
      <3>3. stack' = Append(Front(Below), e) /\ UNCHANGED <<active, exits, errors>>
        BY <1>1, <2>3, <3>1, <3>2 DEF ExitProcReturns, handlers
      <3>4. loop.kind = "exits" /\ Called(loop, Procs(exits))
        <4>1. /\ Ready(Below, Procs(exits)) /\ Sits(Below[Len(Below)], Top, active) /\ Top.kind = "exit proc"
              /\ Last(Below) = Below[Len(Below)] /\ TopKind(Below) = Last(Below).kind
          BY <2>1, OnTop
        <4> QED BY <3>1, <4>1 DEF Sits, Ready
      <3>5. Goes(e, Procs(exits))
        BY <2>3, <3>1, <3>2, <3>4, LoopGoesOn DEF LInv
      <3>6. e.kind = "exits"
        BY <3>5 DEF Goes, Loop
      <3>7. StackOK(Append(Front(Below), e), active, Procs(exits))
        BY <2>1, <3>1, <3>4, <3>5, <3>6, BackStacked
      <3> QED BY <3>3, <3>7, ListsKept
    <2> QED BY <2>2, <2>3
  <1>2. CASE ErrorProcReturns(more)
    <2>1. Running("error proc")
      BY <1>2 DEF ErrorProcReturns
    <2>2. PICK e : e = [Last(Below) EXCEPT !.more = more]
      OBVIOUS
    <2>3. stack' = Append(Front(Below), e) /\ UNCHANGED <<active, exits, errors>>
      BY <1>2, <2>2 DEF ErrorProcReturns, handlers
    <2>4. Last(Below).kind = "errors" /\ "kind" \in DOMAIN Last(Below)
      BY <2>1, LoopBelow
    <2>5. e.kind = "errors"
      BY <2>2, <2>4
    <2>6. StackOK(Append(Front(Below), e), active, Procs(exits))
      BY <2>1, <2>4, <2>5, BackStacked
    <2> QED BY <2>3, <2>6, ListsKept
  <1> QED BY <1>1, <1>2

LEMMA CallErrorProcList == ASSUME IInv, LInv, CallErrorProc PROVE StackOK(stack', active', Procs(exits')) /\ ListsOK'
  <1>1. Running("errors") /\ UNCHANGED <<exits, errors, active>>
    BY DEF CallErrorProc, handlers
  <1>2. /\ Shaped(Below) /\ Stacked(Below, active, Procs(exits)) /\ Sits(Below[Len(Below)], Top, active)
        /\ Ready(Below, Procs(exits)) /\ Top.kind = "errors" /\ Below = Front(stack)
    BY <1>1, OnTop
  <1>3. /\ Shaped(stack) /\ Len(stack) > 1 /\ Top = Last(stack) /\ "kind" \in DOMAIN Top /\ TopKind(stack) = "errors"
    BY <1>1, At
  <1>4. PICK p : p = Head(Top.left)
    OBVIOUS
  <1>5. PICK e : e = [Top EXCEPT !.left = Tail(@), !.ran = Append(@, p)]
    OBVIOUS
  <1>6. e.kind = "errors" /\ "kind" \in DOMAIN e
    BY <1>2, <1>3, <1>5
  <1>7. Sits(Below[Len(Below)], e, active)
    BY <1>2, <1>6 DEF Sits
  <1>8. PICK t : t = Append(Below, e)
    OBVIOUS
  <1>9. Stacked(t, active, Procs(exits)) /\ TopKind(t) = "errors" /\ t[Len(t)] = e
    BY <1>2, <1>6, <1>7, <1>8, PushStacked
  <1>10. Shaped(t)
    <2>1. Alike(Last(stack), e)
      BY <1>2, <1>3, <1>6 DEF Alike
    <2> QED BY <1>2, <1>3, <1>8, <2>1, Replaced
  <1>11. active
    <2>1. PICK n \in Nat : n = Len(stack) /\ n > 1
      BY <1>3 DEF Shaped
    <2>2. n \in 1..Len(stack) /\ stack[n].kind = "errors"
      BY <1>3, <2>1 DEF TopKind
    <2>3. HasErrorLoop(stack)
      BY <2>2 DEF HasErrorLoop
    <2> QED BY <2>3 DEF IInv, LoopOK
  <1>12. PICK x : x = ErrorProc(p)
    OBVIOUS
  <1>13. x.kind = "error proc"
    BY <1>12 DEF ErrorProc
  <1>14. Sits(t[Len(t)], x, active) /\ Ready(t, Procs(exits))
    BY <1>6, <1>9, <1>11, <1>13 DEF Sits, Ready
  <1>15. Stacked(Append(t, x), active, Procs(exits)) /\ TopKind(Append(t, x)) = "error proc"
    BY <1>9, <1>10, <1>13, <1>14, PushStacked, ZenonT(60)
  <1>16. stack' = Append(t, x)
    <2>1. Below \in Seq(ToSet(Below))
      BY <1>2 DEF Shaped
    <2>2. stack' = Below \o <<e, x>>
      BY <1>4, <1>5, <1>12 DEF CallErrorProc
    <2> QED BY <1>8, <2>1, <2>2, TwoPushed
  <1> QED BY <1>1, <1>15, <1>16, ListsKept DEF StackOK

LEMMA ErrorsDoneList == ASSUME IInv, LInv, ErrorsDone PROVE StackOK(stack', active', Procs(exits')) /\ ListsOK'
  <1>1. Running("errors") /\ exits' = exits /\ errors' = <<>> /\ active' = FALSE
    BY DEF ErrorsDone
  <1>2. /\ Shaped(Below) /\ Stacked(Below, active, Procs(exits)) /\ Sits(Below[Len(Below)], Top, active)
        /\ Top.kind = "errors" /\ Last(Below) = Below[Len(Below)] /\ TopKind(Below) = Last(Below).kind
    BY <1>1, OnTop
  <1>3. TopKind(Below) # "exits"
    BY <1>2 DEF Sits
  <1>4. ~HasErrorLoop(Below)
    BY <1>1, BelowAt
  <1>5. Stacked(Below, FALSE, Procs(exits))
    BY <1>2, <1>4, OtherActive
  <1>6. StackOK(stack', FALSE, Procs(exits))
    <2>1. CASE Top.fatal
      <3>1. StartExits(Below, "failure")
        BY <2>1 DEF ErrorsDone
      <3> QED BY <1>2, <1>3, <1>5, <3>1, BeginsStacked
    <2>2. CASE ~Top.fatal
      <3>1. stack' = Below
        BY <2>2 DEF ErrorsDone
      <3> QED BY <1>3, <1>5, <3>1 DEF StackOK
    <2> QED BY <2>1, <2>2
  <1>7. ListsOK'
    BY <1>1 DEF LInv, ListsOK, Procs, IsInjective
  <1> QED BY <1>1, <1>6, <1>7

LEMMA TerminateList == ASSUME IInv, LInv, Terminate PROVE StackOK(stack', active', Procs(exits')) /\ ListsOK'
  <1>1. Running("exits") /\ UNCHANGED <<exits, errors, active>>
    BY DEF Terminate, handlers
  <1>2. /\ Shaped(Below) /\ Stacked(Below, active, Procs(exits)) /\ Sits(Below[Len(Below)], Top, active)
        /\ Ready(Below, Procs(exits)) /\ Top.kind = "exits"
    BY <1>1, OnTop
  <1>3. PICK e : e = [kind |-> "terminated", ends |-> Top.ends]
    OBVIOUS
  <1>4. e.kind = "terminated" /\ stack' = Append(Below, e)
    BY <1>3 DEF Terminate
  <1>5. Sits(Below[Len(Below)], e, active)
    BY <1>2, <1>4 DEF Sits
  <1> QED BY <1>1, <1>2, <1>4, <1>5, PushStacked, ListsKept DEF StackOK

LEMMA LongJumpList ==
  ASSUME IInv, LInv, NEW u, NEW init, jump.set, LongJump(u, init), UNCHANGED <<exits, errors, active>>
  PROVE  StackOK(stack', active', Procs(exits')) /\ ListsOK'
  <1>1. CASE Lands
    <2>1. jump.to = 2
      BY DEF IInv, JumpOK
    <2>2. stack' = SubSeq(stack, 1, 1)
      <3>1. stack' = SubSeq(stack, 1, jump.to - 1) /\ jump.to - 1 = 1
        BY <1>1, <2>1 DEF LongJump
      <3> QED BY <3>1
    <2>3. 1 \in 1..Len(stack) /\ 1 \in 1..1 /\ Shaped(stack)
      BY DEF IInv, Shaped
    <2>4. Len(stack') = 1 /\ stack'[1] = stack[1]
      BY <2>2, <2>3, Cut
    <2>5. stack[1] = Host
      BY DEF LInv, StackOK, Stacked
    <2> QED BY <2>4, <2>5, HostAlone, ListsKept
  <1>2. CASE ~Lands
    <2>1. stack' = stack
      BY <1>2 DEF LongJump
    <2> QED BY <2>1, SameStack, ListsKept
  <1> QED BY <1>1, <1>2

LEMMA LeaveList == ASSUME IInv, LInv, Leave PROVE StackOK(stack', active', Procs(exits')) /\ ListsOK'
  <1>1. Running("terminated") /\ UNCHANGED <<exits, errors, active>>
    BY DEF Leave, handlers
  <1>2. CASE Top.ends = "tidy"
    <2>1. stack' = Below
      BY <1>2 DEF Leave
    <2>2. Below[1] = Host /\ Top.kind = "terminated"
      BY <1>1, OnTop
    <2>3. Fits(Top, Len(stack), TopKind(Below), Second(stack, Len(stack)))
      BY <1>1, BelowAt
    <2>4. Len(stack) = 2
      BY <1>2, <2>2, <2>3, Zenon DEF Fits
    <2>5. Len(Below) = 1
      BY <1>1, <2>4, BelowAt
    <2> QED BY <1>1, <2>1, <2>2, <2>5, HostAlone, ListsKept
  <1>3. CASE Top.ends # "tidy" /\ jump.set
    <2>1. LongJump(unload, initialized)
      BY <1>3 DEF Leave
    <2> QED BY <1>1, <1>3, <2>1, LongJumpList
  <1>4. CASE Top.ends # "tidy" /\ ~jump.set
    <2>1. stack' = stack
      BY <1>4 DEF Leave
    <2> QED BY <1>1, <2>1, SameStack, ListsKept
  <1> QED BY <1>2, <1>3, <1>4

LEMMA CobSigHandlerList == ASSUME IInv, LInv, CobSigHandler PROVE StackOK(stack', active', Procs(exits')) /\ ListsOK'
  <1>1. UNCHANGED <<exits, errors, active>>
    BY DEF CobSigHandler, handlers
  <1>2. CASE ~handled /\ jump.set
    <2>1. LongJump(UnloadAfter, StaysAfter)
      BY <1>2 DEF CobSigHandler
    <2> QED BY <1>1, <1>2, <2>1, LongJumpList
  <1>3. CASE handled \/ ~jump.set
    <2>1. stack' = stack
      BY <1>3 DEF CobSigHandler
    <2> QED BY <1>1, <2>1, SameStack, ListsKept
  <1> QED BY <1>2, <1>3

LEMMA LongJumpStatics ==
  ASSUME Statics, NEW u \in {"immediate", "postpone", "requested"}, NEW b \in BOOLEAN, LongJump(u, b), mode = "running",
         UNCHANGED <<handlers>>, handled' \in BOOLEAN
  PROVE  Statics'
  <1>1. CASE Lands
    <2>1. jump' = [set |-> FALSE, to |-> 0] /\ unload' = "immediate" /\ initialized' \in BOOLEAN /\ mode' = mode
      BY <1>1, Zenon DEF LongJump
    <2> QED BY <2>1 DEF Statics, handlers
  <1>2. CASE ~Lands
    <2>1. mode' = "lost" /\ jump' = jump /\ unload' = unload /\ initialized' = initialized
      BY <1>2 DEF LongJump, jumps
    <2> QED BY <2>1 DEF Statics, handlers
  <1> QED BY <1>1, <1>2

LEMMA StaticsStep == ASSUME LInv, Next PROVE Statics'
  <1>1. Statics
    BY DEF LInv
  <1>2. UnloadAfter \in {"immediate", "postpone", "requested"} /\ StaysAfter \in BOOLEAN
    BY <1>1 DEF Statics, UnloadAfter, StaysAfter
  <1>3. ASSUME CobInit PROVE Statics'
    BY <1>1, <1>3 DEF CobInit, Statics, handlers, jumps
  <1>4. ASSUME CobCall PROVE Statics'
    BY <1>1, <1>4 DEF CobCall, Statics, handlers, jumps
  <1>5. ASSUME CobCallWithExceptionCheck PROVE Statics'
    BY <1>1, <1>5 DEF CobCallWithExceptionCheck, Statics, handlers, jumps
  <1>6. ASSUME CobTidy PROVE Statics'
    BY <1>1, <1>6 DEF CobTidy, Statics, handlers, jumps
  <1>7. ASSUME HostEnds PROVE Statics'
    BY <1>1, <1>7 DEF HostEnds, Statics, handlers, jumps
  <1>8. ASSUME NEW p \in ExitProcs, RemoveExit(p) PROVE Statics'
    BY <1>1, <1>8 DEF RemoveExit, Statics, handlers, jumps
  <1>9. ASSUME NEW p \in ExitProcs, NEW q \in Priorities, InstallExit(p, q) PROVE Statics'
    BY <1>1, <1>9 DEF InstallExit, Statics, handlers, jumps
  <1>10. ASSUME NEW p \in ErrorProcs, InstallError(p) PROVE Statics'
    BY <1>1, <1>10 DEF InstallError, SetErrors, Undefined, Statics, handlers, jumps
  <1>11. ASSUME NEW p \in ErrorProcs, RemoveError(p) PROVE Statics'
    BY <1>1, <1>11 DEF RemoveError, SetErrors, Undefined, Statics, handlers, jumps
  <1>12. ASSUME NEW fatal \in BOOLEAN, RuntimeError(fatal) PROVE Statics'
    BY <1>1, <1>12 DEF RuntimeError, Statics, handlers, jumps
  <1>13. ASSUME StopRun PROVE Statics'
    BY <1>1, <1>13 DEF StopRun, Statics, handlers, jumps
  <1>14. ASSUME ProgramReturns PROVE Statics'
    BY <1>1, <1>14 DEF ProgramReturns, Statics, handlers, jumps
  <1>15. ASSUME CallExitProc PROVE Statics'
    BY <1>1, <1>15 DEF CallExitProc, Statics, handlers, jumps
  <1>16. ASSUME ExitProcReturns PROVE Statics'
    BY <1>1, <1>16 DEF ExitProcReturns, Undefined, Statics, handlers, jumps
  <1>17. ASSUME CallErrorProc PROVE Statics'
    BY <1>1, <1>17 DEF CallErrorProc, Statics, handlers, jumps
  <1>18. ASSUME NEW more \in BOOLEAN, ErrorProcReturns(more) PROVE Statics'
    BY <1>1, <1>18 DEF ErrorProcReturns, Statics, handlers, jumps
  <1>19. ASSUME ErrorsDone PROVE Statics'
    BY <1>1, <1>19 DEF ErrorsDone, Statics, handlers, jumps
  <1>20. ASSUME Terminate PROVE Statics'
    BY <1>1, <1>2, <1>20 DEF Terminate, Statics, handlers, jumps
  <1>21. ASSUME Leave PROVE Statics'
    <2>1. mode = "running" /\ UNCHANGED <<handlers>> /\ handled' = handled /\ handled' \in BOOLEAN
      BY <1>1, <1>21 DEF Leave, Running, Statics, handlers
    <2>2. CASE Top.ends = "tidy"
      BY <1>1, <2>1, <2>2, <1>21 DEF Leave, Statics, handlers, jumps
    <2>3. CASE Top.ends # "tidy" /\ jump.set
      <3>1. LongJump(unload, initialized)
        BY <2>3, <1>21 DEF Leave
      <3>2. unload \in {"immediate", "postpone", "requested"} /\ initialized \in BOOLEAN
        BY <1>1 DEF Statics
      <3> QED BY <1>1, <2>1, <3>1, <3>2, LongJumpStatics
    <2>4. CASE Top.ends # "tidy" /\ ~jump.set
      BY <1>1, <2>1, <2>4, <1>21 DEF Leave, Statics, handlers, jumps
    <2> QED BY <2>2, <2>3, <2>4
  <1>22. ASSUME CobSigHandler PROVE Statics'
    <2>1. mode = "running" /\ UNCHANGED <<handlers>> /\ handled' = TRUE /\ handled' \in BOOLEAN
      BY <1>22 DEF CobSigHandler, handlers
    <2>2. CASE handled
      BY <1>1, <2>1, <2>2, <1>22 DEF CobSigHandler, Statics, handlers, jumps
    <2>3. CASE ~handled /\ jump.set
      <3>1. LongJump(UnloadAfter, StaysAfter)
        BY <2>3, <1>22 DEF CobSigHandler
      <3> QED BY <1>1, <1>2, <2>1, <3>1, LongJumpStatics
    <2>4. CASE ~handled /\ ~jump.set
      BY <1>1, <1>2, <2>1, <2>4, <1>22 DEF CobSigHandler, Statics, handlers
    <2> QED BY <2>2, <2>3, <2>4
  <1> QED BY <1>3, <1>4, <1>5, <1>6, <1>7, <1>8, <1>9, <1>10, <1>11, <1>12, <1>13, <1>14, <1>15, <1>16, <1>17, <1>18, <1>19, <1>20, <1>21, <1>22 DEF Next, HostNext, CobolNext, Returns

LEMMA NextLInv == ASSUME IInv, LInv, [Next]_vars PROVE LInv'
  <1>1. CASE Next
    <2>1. StackOK(stack', active', Procs(exits')) /\ ListsOK'
      <3>1. CASE HostNext
        BY <3>1, HostListStep
      <3>2. CASE CobolNext
        BY <3>2, CobolListStep
      <3>3. CASE Returns
        BY <3>3, ProgramReturnsList, CallExitProcList, ProcReturnsList, CallErrorProcList, ErrorsDoneList,
           TerminateList, LeaveList DEF Returns
      <3>4. CASE CobSigHandler
        BY <3>4, CobSigHandlerList
      <3> QED BY <1>1, <3>1, <3>2, <3>3, <3>4 DEF Next
    <2>2. Statics'
      BY <1>1, StaticsStep
    <2>3. StackOK(stack, active, Procs(exits))'
      BY <2>1 DEF StackOK, Stacked, Procs
    <2> QED BY <2>1, <2>2, <2>3 DEF LInv
  <1>2. CASE UNCHANGED vars
    <2>1. StackOK(stack, active, Procs(exits))' /\ ListsOK'
      BY <1>2, SameStack, ListsKept DEF vars
    <2>2. Statics'
      BY <1>2 DEF LInv, Statics, vars
    <2> QED BY <2>1, <2>2 DEF LInv
  <1> QED BY <1>1, <1>2

LEMMA InitLInv == Init => LInv
  <1> SUFFICES ASSUME Init PROVE LInv
    OBVIOUS
  <1>1. stack[1] = Host /\ Len(stack) = 1
    BY DEF Init
  <1>2. Procs(exits) = <<>>
    BY DEF Init, Procs
  <1>3. ListsOK
    BY <1>2 DEF Init, ListsOK, IsInjective
  <1>4. Statics
    BY DEF Init, Statics
  <1> QED BY <1>1, <1>3, <1>4, HostAlone DEF LInv

-----------------------------------------------------------------------------
\* Both invariants hold in every behaviour: the stack, the lists and the loops over them.
THEOREM ListsInductive == Spec => [](IInv /\ LInv)
  <1>1. Init => IInv /\ LInv
    BY InitIInv, InitLInv
  <1>2. IInv /\ LInv /\ [Next]_vars => (IInv /\ LInv)'
    BY NextIInv, NextLInv
  <1> QED BY <1>1, <1>2, PTL DEF Spec

\* The statics of common.c have the values their declarations allow, the control stack is
\* one that its calls build, no procedure is twice in a list.
THEOREM TypeCorrect == Spec => []TypeOK
  <1>1. IInv /\ LInv => TypeOK
    <2> SUFFICES ASSUME IInv, LInv PROVE TypeOK
      OBVIOUS
    <2>1. WellFormed
      <3>1. \A b, f : Sits(b, f, active) => Carries(b, f)
        BY DEF Sits, Carries
      <3> QED BY <3>1 DEF LInv, StackOK, Stacked, WellFormed
    <2>2. ToSet(exits) \subseteq [proc : ExitProcs, priority : Priorities]
      <3>1. PICK R : R = [proc : ExitProcs, priority : Priorities]
        OBVIOUS
      <3>2. exits \in Seq(R)
        BY <3>1 DEF LInv, ListsOK
      <3>3. ToSet(exits) \subseteq R
        BY <3>2 DEF ToSet
      <3> QED BY <3>1, <3>3
    <2>3. ToSet(errors) \subseteq ErrorProcs
      BY DEF LInv, ListsOK, ToSet
    <2>4. IsInjective(Procs(exits)) /\ IsInjective(errors)
      BY DEF LInv, ListsOK
    <2> QED BY <2>1, <2>2, <2>3, <2>4 DEF TypeOK, LInv, Statics
  <1> QED BY <1>1, ListsInductive, PTL

\* Every pass over the exit procedures calls each at most once, in the order of the list it
\* began with, and leaves out none that stayed installed, whatever the procedures install,
\* move and remove on the way, in passes inside of passes too.
THEOREM ExitProcsCalledOnce == Spec => []ExitProcsOnce
  <1>1. IInv /\ LInv => ExitProcsOnce
    <2> SUFFICES ASSUME IInv, LInv, NEW f \in Loops
                 PROVE  /\ IsInjective(f.ran) /\ ToSet(f.ran) \subseteq ToSet(f.was)
                        /\ \A i, j \in DOMAIN f.ran : i < j => Precedes(f.was, f.ran[i], f.ran[j])
                        /\ f.at = NIL => ToSet(f.was) \ f.moved \subseteq ToSet(f.ran)
      BY DEF ExitProcsOnce
    <2>1. PICK n \in Nat : n = Len(stack) /\ n > 0 /\ DOMAIN stack = 1..n
      BY DEF IInv, Shaped
    <2>2. PICK i \in 1..n : f = stack[i] /\ f.kind = "exits"
      BY <2>1 DEF Loops, Frames
    <2>3. Called(f, Procs(exits)) \/ Goes(f, Procs(exits))
      <3>1. CASE i = n
        BY <2>1, <2>2, <3>1 DEF LInv, StackOK, TopKind
      <3>2. CASE i # n
        <4>1. i < n
          BY <3>2
        <4> QED BY <2>1, <2>2, <4>1 DEF LInv, StackOK, Stacked
      <3> QED BY <3>1, <3>2
    <2>4. f \in Loop /\ RanInOrder(f) /\ IsInjective(f.was)
      BY <2>3 DEF Called, Goes, StayedInPlace
    <2>5. f.was \in Seq(ExitProcs) /\ f.ran \in Seq(ExitProcs)
      BY <2>4 DEF Loop
    <2>6. PICK m \in Nat : m = Len(f.ran) /\ DOMAIN f.ran = 1..m
      BY <2>5
    <2>7. \A k, l \in 1..m : k < l => Precedes(f.was, f.ran[k], f.ran[l])
      BY <2>4, <2>6 DEF RanInOrder
    <2>8. \A k, l \in 1..m : k < l => f.ran[k] # f.ran[l]
      BY <2>4, <2>5, <2>7, PrecedesOnce
    <2>9. IsInjective(f.ran)
      <3> SUFFICES ASSUME NEW k \in 1..m, NEW l \in 1..m, f.ran[k] = f.ran[l] PROVE k = l
        BY <2>6 DEF IsInjective
      <3>1. ~(k < l) /\ ~(l < k)
        BY <2>8
      <3> QED BY <3>1
    <2>10. f.at = NIL => Stayed(f) \subseteq ToSet(f.ran)
      <3>1. f.at = NIL => f.at \notin Stayed(f) \cup {FREED}
        <4>1. Stayed(f) \subseteq ExitProcs
          BY <2>5 DEF Stayed, ToSet
        <4> QED BY <4>1, ProcsAssumption
      <3> QED BY <2>3, <3>1 DEF Called, Goes
    <2>11. ToSet(f.ran) \subseteq ToSet(f.was)
      BY <2>4 DEF RanInOrder
    <2> QED BY <2>6, <2>7, <2>9, <2>10, <2>11 DEF Stayed
  <1> QED BY <1>1, ListsInductive, PTL
===============================================================================
