---------------------------- MODULE SortFile_proofs ----------------------------
(***************************************************************************)
(* Proofs about SortFile, for any keys, sort memory and number of records: *)
(*                                                                         *)
(*   - what merging two blocks, a pass over queues or files and all passes *)
(*     together return (MergeSorts, PassGood, PassesGood),                 *)
(*   - the inductive invariant Inv, and from it TypeOK and SortReturnTells,*)
(*   - that SortFile implements Sorting.                                   *)
(*                                                                         *)
(* Merge and Passes are recursive functions.  What they return is shown by *)
(* counting up the steps of the recursion: a property of the first step    *)
(* that goes on to each next one has no least step without it.             *)
(***************************************************************************)
EXTENDS SortFile, FiniteSetTheorems, WellFoundedInduction, SequenceTheorems, TLAPS

-----------------------------------------------------------------------------
(* Numbers: the least one of a set, and counting up.                                     *)

LEMMA LeastOf ==
  ASSUME NEW T \in SUBSET Nat, T # {}
  PROVE  \E i \in T : \A j \in T : i <= j
  <1>1. PICK n \in T : TRUE
    OBVIOUS
  <1>2. n \in Nat /\ \A j \in T : j \in Nat
    BY <1>1
  <1>3. IsFiniteSet(0..n)
    BY <1>2, FS_Interval
  <1>4. IsWellFoundedOn(StrictSubsetOrdering(0..n), SUBSET (0..n))
    BY <1>3, FS_StrictSubsetOrderingWellFounded, FS_FiniteSubsetsOfFinite
  <1>5. PICK D : D = {0..i : i \in {j \in T : j <= n}}
    OBVIOUS
  <1>6. D \in SUBSET SUBSET (0..n) /\ D # {}
    BY <1>1, <1>2, <1>5
  <1>7. PICK x \in D : \A y \in D : ~(<<y, x>> \in StrictSubsetOrdering(0..n))
    BY <1>4, <1>6, WFMin
  <1>8. \A y \in D : y \subseteq x => y = x
    BY <1>6, <1>7 DEF StrictSubsetOrdering
  <1>9. PICK i \in T : i <= n /\ x = 0..i
    BY <1>5, <1>7
  <1>10. ASSUME NEW j \in T, ~(i <= j) PROVE FALSE
    <2>1. i \in Nat /\ j \in Nat /\ j < i /\ j <= n
      BY <1>2, <1>9, <1>10
    <2>2. 0..j \in D
      BY <1>5, <2>1
    <2>3. 0..j \subseteq 0..i
      BY <2>1
    <2>4. 0..j = 0..i
      BY <1>8, <1>9, <2>2, <2>3
    <2>5. i \in 0..i /\ i \notin 0..j
      BY <2>1
    <2> QED BY <2>4, <2>5
  <1> QED BY <1>10

LEMMA CountingUp ==
  ASSUME NEW n \in Nat, NEW T, 0 \in T, \A k \in 0..(n - 1) : k \in T => k + 1 \in T
  PROVE  \A k \in 0..n : k \in T
  <1> SUFFICES ASSUME NEW k \in 0..n, k \notin T PROVE FALSE
    OBVIOUS
  <1>1. PICK M : M = {i \in 0..n : i \notin T}
    OBVIOUS
  <1>2. M \in SUBSET Nat /\ M # {}
    BY <1>1
  <1>3. PICK i \in M : \A j \in M : i <= j
    BY <1>2, LeastOf
  <1>4. i \in 0..n /\ i \notin T /\ i # 0
    BY <1>1, <1>3
  <1>5. i - 1 \in 0..(n - 1) /\ i - 1 \in 0..n /\ ~(i <= i - 1) /\ (i - 1) + 1 = i
    BY <1>4
  <1>6. i - 1 \in T
    BY <1>1, <1>3, <1>5
  <1>7. (i - 1) + 1 \in T
    BY <1>5, <1>6
  <1> QED BY <1>4, <1>5, <1>7

-----------------------------------------------------------------------------
(* The order of the records.                                                             *)

Item == [key : Keys, unique : Nat]

Less(d, x, y) == IF d = "ASC" THEN x < y ELSE x > y

\* a and b first differ in key field i, where a comes first.
FirstAt(i, a, b) ==
  /\ \A j \in 1..(i - 1) : a.key[j] = b.key[j]
  /\ Less(Directions[i], a.key[i], b.key[i])

LEMMA Fields ==
  /\ Len(Directions) \in Nat /\ DOMAIN Directions = 1..Len(Directions)
  /\ \A a \in Item : /\ a.key \in [1..Len(Directions) -> Int] /\ a.unique \in Nat /\ a.key \in Keys
                     /\ \A i \in 1..Len(Directions) : a.key[i] \in Int
  BY KeysAssumption DEF Item

LEMMA BeforeIs ==
  ASSUME NEW a, NEW b
  PROVE  Before(a, b) <=> \/ \E i \in 1..Len(Directions) : FirstAt(i, a, b)
                          \/ a.key = b.key /\ a.unique < b.unique
  BY Fields DEF Before, FirstAt, Less

LEMMA FirstAtOnce ==
  ASSUME NEW a \in Item, NEW b \in Item, NEW c \in Item,
         NEW i \in 1..Len(Directions), FirstAt(i, a, b), NEW j \in 1..Len(Directions), FirstAt(j, b, c)
  PROVE  \E k \in 1..Len(Directions) : FirstAt(k, a, c)
  <1>1. /\ Len(Directions) \in Nat
        /\ \A k \in 1..Len(Directions) : a.key[k] \in Int /\ b.key[k] \in Int /\ c.key[k] \in Int
    BY Fields
  <1>2. CASE i < j
    <2>1. FirstAt(i, a, c)
      BY <1>1, <1>2 DEF FirstAt
    <2> QED BY <2>1
  <1>3. CASE i = j
    <2>1. FirstAt(i, a, c)
      BY <1>1, <1>3 DEF FirstAt, Less
    <2> QED BY <2>1
  <1>4. CASE j < i
    <2>1. FirstAt(j, a, c)
      BY <1>1, <1>4 DEF FirstAt
    <2> QED BY <2>1
  <1> QED BY <1>1, <1>2, <1>3, <1>4

LEMMA BeforeTransitive ==
  ASSUME NEW a \in Item, NEW b \in Item, NEW c \in Item, Before(a, b), Before(b, c)
  PROVE  Before(a, c)
  <1>1. CASE a.key = b.key
    <2>1. CASE b.key = c.key
      BY <1>1, <2>1, BeforeIs, Fields DEF FirstAt, Less
    <2>2. CASE b.key # c.key
      BY <1>1, <2>2, BeforeIs DEF FirstAt
    <2> QED BY <2>1, <2>2
  <1>2. CASE b.key = c.key /\ a.key # b.key
    BY <1>2, BeforeIs DEF FirstAt
  <1>3. CASE a.key # b.key /\ b.key # c.key
    <2>1. PICK i \in 1..Len(Directions) : FirstAt(i, a, b)
      BY <1>3, BeforeIs
    <2>2. PICK j \in 1..Len(Directions) : FirstAt(j, b, c)
      BY <1>3, BeforeIs
    <2> QED BY <2>1, <2>2, FirstAtOnce, BeforeIs
  <1> QED BY <1>1, <1>2, <1>3

LEMMA BeforeIrreflexive == ASSUME NEW a \in Item PROVE ~Before(a, a)
  BY BeforeIs, Fields DEF FirstAt, Less

LEMMA BeforeTotal ==
  ASSUME NEW a \in Item, NEW b \in Item, a.unique # b.unique
  PROVE  Before(a, b) \/ Before(b, a)
  <1>1. CASE a.key = b.key
    <2>1. a.unique < b.unique \/ b.unique < a.unique
      BY Fields
    <2> QED BY <1>1, <2>1, BeforeIs
  <1>2. CASE a.key # b.key
    <2>1. PICK n \in Nat : n = Len(Directions)
      BY Fields
    <2>2. a.key \in [1..n -> Int] /\ b.key \in [1..n -> Int]
      BY <2>1, Fields
    <2>3. PICK T : T = {i \in 1..n : a.key[i] # b.key[i]}
      OBVIOUS
    <2>4. T # {} /\ T \in SUBSET Nat
      <3>1. T = {} => \A i \in 1..n : a.key[i] = b.key[i]
        BY <2>3
      <3>2. (\A i \in 1..n : a.key[i] = b.key[i]) => a.key = b.key
        BY <2>2
      <3>3. T \in SUBSET Nat
        BY <2>1, <2>3
      <3> QED BY <1>2, <3>1, <3>2, <3>3
    <2>5. PICK i \in T : \A j \in T : i <= j
      BY <2>4, LeastOf
    <2>6. i \in 1..n /\ a.key[i] # b.key[i]
      BY <2>3, <2>5
    <2>7. \A j \in 1..(i - 1) : a.key[j] = b.key[j]
      BY <2>1, <2>3, <2>5, <2>6
    <2>8. Less(Directions[i], a.key[i], b.key[i]) \/ Less(Directions[i], b.key[i], a.key[i])
      BY <2>2, <2>6 DEF Less
    <2>9. FirstAt(i, a, b) \/ FirstAt(i, b, a)
      BY <2>7, <2>8 DEF FirstAt
    <2> QED BY <2>1, <2>6, <2>9, BeforeIs
  <1> QED BY <1>1, <1>2

-----------------------------------------------------------------------------
(* Two blocks merged.                                                                    *)

Sorted(s) == \A i, j \in 1..Len(s) : i < j => Before(s[i], s[j])
Unlike(S) == \A r, s \in S : r.unique = s.unique => r = s

MergeStart == [ofA |-> 0, out |-> <<>>]

TakeFirst(l, e) == [ofA |-> l.ofA + 1, out |-> Append(l.out, e)]
TakeSecond(l, e) == [ofA |-> l.ofA, out |-> Append(l.out, e)]

\* The body of the loop of Merge.
MergeStep(a, b, k, l) ==
  IF FromFirst(a, b, l.ofA, k - 1 - l.ofA)
  THEN TakeFirst(l, a[l.ofA + 1])
  ELSE TakeSecond(l, b[k - l.ofA])

MergeRun(a, b, n, f) ==
  f = [k \in 0..n |-> IF k = 0 THEN MergeStart ELSE MergeStep(a, b, k, f[k - 1])]

LEMMA MergeRunIs ==
  ASSUME NEW a, NEW b, NEW n \in Nat, NEW f, MergeRun(a, b, n, f)
  PROVE  /\ f[0] = MergeStart
         /\ \A k \in 1..n : f[k] = MergeStep(a, b, k, f[k - 1])
  <1>1. f[0] = MergeStart
    BY DEF MergeRun
  <1>2. ASSUME NEW k \in 1..n PROVE f[k] = MergeStep(a, b, k, f[k - 1])
    <2>1. k \in 0..n /\ k # 0
      OBVIOUS
    <2> QED BY <2>1 DEF MergeRun
  <1> QED BY <1>1, <1>2

LEMMA MergeRuns ==
  ASSUME NEW a, NEW b, NEW n \in Nat
  PROVE  \E f : MergeRun(a, b, n, f)
  <1>1. PICK T : T = {k \in 0..n : \E f : MergeRun(a, b, k, f)}
    OBVIOUS
  <1>2. 0 \in T
    <2>1. PICK f : f = [k \in 0..0 |-> MergeStart]
      OBVIOUS
    <2>2. MergeRun(a, b, 0, f)
      BY <2>1 DEF MergeRun
    <2> QED BY <1>1, <2>2
  <1>3. ASSUME NEW i \in 0..(n - 1), i \in T PROVE i + 1 \in T
    <2>1. PICK f : MergeRun(a, b, i, f)
      BY <1>1, <1>3
    <2>2. PICK e : e = MergeStep(a, b, i + 1, f[i])
      OBVIOUS
    <2>3. PICK g : g = [k \in 0..(i + 1) |-> IF k = i + 1 THEN e ELSE f[k]]
      OBVIOUS
    <2>4. \A k \in 0..(i + 1) : g[k] = IF k = 0 THEN MergeStart ELSE MergeStep(a, b, k, g[k - 1])
      <3> SUFFICES ASSUME NEW k \in 0..(i + 1)
                   PROVE  g[k] = IF k = 0 THEN MergeStart ELSE MergeStep(a, b, k, g[k - 1])
        OBVIOUS
      <3>1. CASE k = 0
        <4>1. g[k] = f[0]
          BY <2>3, <3>1
        <4> QED BY <2>1, <3>1, <4>1, MergeRunIs
      <3>2. CASE k = i + 1
        <4>1. g[k] = e /\ g[k - 1] = f[i] /\ k # 0
          BY <2>3, <3>2
        <4> QED BY <2>2, <3>2, <4>1
      <3>3. CASE k \in 1..i
        <4>1. g[k] = f[k] /\ g[k - 1] = f[k - 1] /\ k # 0
          BY <2>3, <3>3
        <4>2. f[k] = MergeStep(a, b, k, f[k - 1])
          <5>1. i \in Nat
            OBVIOUS
          <5> QED BY <2>1, <3>3, <5>1, MergeRunIs
        <4> QED BY <4>1, <4>2
      <3> QED BY <3>1, <3>2, <3>3
    <2>5. g = [k \in 0..(i + 1) |-> g[k]]
      BY <2>3
    <2>6. MergeRun(a, b, i + 1, g)
      BY <2>4, <2>5 DEF MergeRun
    <2> QED BY <1>1, <2>6
  <1>4. \A k \in 0..n : k \in T
    BY <1>2, <1>3, CountingUp
  <1>5. n \in T
    BY <1>4
  <1> QED BY <1>1, <1>5

MergedBy(a, b, n, f) ==
  /\ f[0] = MergeStart /\ \A k \in 1..n : f[k] = MergeStep(a, b, k, f[k - 1])
  /\ Merge(a, b) = f[n].out

LEMMA MergeIs ==
  ASSUME NEW a, NEW b, NEW n \in Nat, Len(a) + Len(b) = n
  PROVE  \E f : MergedBy(a, b, n, f)
  <1>1. \E f : MergeRun(a, b, n, f)
    BY MergeRuns
  <1>2. PICK f : MergeRun(a, b, n, f) /\ Merge(a, b) = f[n].out
    BY <1>1 DEF MergeRun, Merge, MergeStep, MergeStart, TakeFirst, TakeSecond
  <1>3. MergeRun(a, b, n, f)
    BY <1>2
  <1>4. f[0] = MergeStart /\ \A k \in 1..n : f[k] = MergeStep(a, b, k, f[k - 1])
    BY <1>3, MergeRunIs
  <1> QED BY <1>2, <1>4 DEF MergedBy

\* i records of a and j of b are done.
Done(k, l, i, j) == l.ofA = i /\ k = i + j

LEMMA MergeStepIs ==
  ASSUME NEW a, NEW b, NEW i \in Nat, NEW j \in Nat, NEW k \in Nat, NEW l, Done(k, l, i, j)
  PROVE  /\ FromFirst(a, b, i, j) => MergeStep(a, b, k + 1, l) = TakeFirst(l, a[i + 1])
         /\ ~FromFirst(a, b, i, j) => MergeStep(a, b, k + 1, l) = TakeSecond(l, b[j + 1])
  <1>1. (k + 1) - 1 - i = j /\ (k + 1) - i = j + 1
    BY DEF Done
  <1>2. (k + 1) - 1 - l.ofA = j /\ (k + 1) - l.ofA = j + 1 /\ l.ofA = i
    BY <1>1 DEF Done
  <1> QED BY <1>2 DEF MergeStep

\* After k records the merged block is sorted, has the records that are done, and is ahead
\* of the others.
Merging(S, a, b, k, l) ==
  /\ l.ofA \in 0..Len(a) /\ k - l.ofA \in 0..Len(b)
  /\ l.out \in Seq(S) /\ Len(l.out) = k
  /\ Sorted(l.out)
  /\ \A p \in 1..k : /\ l.ofA < Len(a) => Before(l.out[p], a[l.ofA + 1])
                     /\ k - l.ofA < Len(b) => Before(l.out[p], b[k - l.ofA + 1])
  /\ \A i \in 1..l.ofA : \E p \in 1..k : l.out[p] = a[i]
  /\ \A i \in 1..(k - l.ofA) : \E p \in 1..k : l.out[p] = b[i]
  /\ \A p \in 1..k : (\E i \in 1..l.ofA : l.out[p] = a[i]) \/ (\E i \in 1..(k - l.ofA) : l.out[p] = b[i])

LEMMA AppendIs ==
  ASSUME NEW S, NEW s \in Seq(S), NEW e \in S, NEW k \in Nat, Len(s) = k
  PROVE  /\ Append(s, e) \in Seq(S) /\ Len(Append(s, e)) = k + 1 /\ Append(s, e)[k + 1] = e
         /\ \A p \in 1..k : Append(s, e)[p] = s[p]
  OBVIOUS

LEMMA AppendSorted ==
  ASSUME NEW S, NEW s \in Seq(S), NEW e \in S, NEW k \in Nat, Len(s) = k, Sorted(s), \A p \in 1..k : Before(s[p], e)
  PROVE  Sorted(Append(s, e))
  <1>1. PICK t : t = Append(s, e)
    OBVIOUS
  <1>2. Len(t) = k + 1 /\ t[k + 1] = e /\ \A p \in 1..k : t[p] = s[p]
    BY <1>1, AppendIs
  <1>3. ASSUME NEW i \in 1..(k + 1), NEW j \in 1..(k + 1), i < j PROVE Before(t[i], t[j])
    <2>1. i \in 1..k /\ t[i] = s[i]
      BY <1>2, <1>3
    <2>2. CASE j = k + 1
      BY <1>2, <2>1, <2>2
    <2>3. CASE j \in 1..k
      BY <1>2, <1>3, <2>1, <2>3 DEF Sorted
    <2> QED BY <2>2, <2>3
  <1> QED BY <1>1, <1>2, <1>3 DEF Sorted

\* The next record comes from a, or from b.
LEMMA MergesFirst ==
  ASSUME NEW S, S \subseteq Item, NEW a \in Seq(S), NEW b \in Seq(S), Sorted(a), Sorted(b),
         NEW k \in Nat, NEW l, Merging(S, a, b, k, l),
         NEW i \in Nat, NEW j \in Nat, Done(k, l, i, j), FromFirst(a, b, i, j)
  PROVE  Merging(S, a, b, k + 1, TakeFirst(l, a[i + 1]))
  <1>1. PICK m \in Nat, n \in Nat : m = Len(a) /\ n = Len(b)
    OBVIOUS
  <1>2. i = l.ofA /\ j = k - l.ofA
    BY DEF Done
  <1>3. i \in 0..m /\ j \in 0..n /\ i + j = k /\ i < m /\ (j = n \/ Before(a[i + 1], b[j + 1]))
    BY <1>1, <1>2 DEF Merging, FromFirst
  <1>4. PICK s \in Seq(S) : s = l.out /\ Len(s) = k /\ Sorted(s)
    BY DEF Merging
  <1>5. PICK e \in S : e = a[i + 1]
    BY <1>1, <1>3
  <1>6. PICK t : t = Append(s, e)
    OBVIOUS
  <1>7. t \in Seq(S) /\ Len(t) = k + 1 /\ t[k + 1] = e /\ \A p \in 1..k : t[p] = s[p] /\ s[p] \in S
    BY <1>4, <1>6, AppendIs
  <1>8. \A p \in 1..k : Before(s[p], e) /\ (j < n => Before(s[p], b[j + 1]))
    BY <1>1, <1>2, <1>3, <1>4, <1>5 DEF Merging
  <1>9. Sorted(t)
    BY <1>4, <1>6, <1>8, AppendSorted
  <1>10. i + 1 < m => a[i + 2] \in S /\ Before(e, a[i + 2])
    <2>1. i + 1 < m => i + 1 \in 1..m /\ i + 2 \in 1..m /\ i + 1 < i + 2
      BY <1>1, <1>3
    <2> QED BY <1>1, <1>5, <2>1 DEF Sorted
  <1>11. ASSUME NEW p \in 1..(k + 1)
         PROVE  (i + 1 < m => Before(t[p], a[i + 2])) /\ (j < n => Before(t[p], b[j + 1]))
    <2>1. CASE p = k + 1
      BY <1>3, <1>5, <1>7, <1>10, <2>1
    <2>2. CASE p # k + 1
      <3>1. p \in 1..k
        BY <2>2
      <3>2. t[p] = s[p] /\ s[p] \in Item /\ e \in Item /\ Before(s[p], e) /\ (j < n => Before(s[p], b[j + 1]))
        BY <1>7, <1>8, <3>1
      <3>3. i + 1 < m => a[i + 2] \in Item
        BY <1>10
      <3> QED BY <1>10, <3>2, <3>3, BeforeTransitive
    <2> QED BY <2>1, <2>2
  <1>12. ASSUME NEW q \in 1..(i + 1) PROVE \E p \in 1..(k + 1) : t[p] = a[q]
    <2>1. CASE q = i + 1
      <3>1. k + 1 \in 1..(k + 1)
        OBVIOUS
      <3> QED BY <1>5, <1>7, <2>1, <3>1
    <2>2. CASE q # i + 1
      <3>1. q \in 1..i
        BY <2>2
      <3>2. \A r \in 1..i : \E p \in 1..k : s[p] = a[r]
        BY <1>2, <1>4 DEF Merging
      <3>3. PICK p \in 1..k : s[p] = a[q]
        BY <3>1, <3>2
      <3>4. p \in 1..(k + 1)
        OBVIOUS
      <3> QED BY <1>7, <3>3, <3>4
    <2> QED BY <2>1, <2>2
  <1>13. ASSUME NEW q \in 1..j PROVE \E p \in 1..(k + 1) : t[p] = b[q]
    <2>1. PICK p \in 1..k : s[p] = b[q]
      BY <1>2, <1>4 DEF Merging
    <2> QED BY <1>7, <2>1
  <1>14. ASSUME NEW p \in 1..(k + 1)
         PROVE  (\E q \in 1..(i + 1) : t[p] = a[q]) \/ (\E q \in 1..j : t[p] = b[q])
    <2>1. CASE p = k + 1
      <3>1. i + 1 \in 1..(i + 1)
        OBVIOUS
      <3> QED BY <1>5, <1>7, <2>1, <3>1
    <2>2. CASE p # k + 1
      <3>1. p \in 1..k /\ t[p] = s[p]
        BY <1>7, <2>2
      <3>2. (\E q \in 1..i : s[p] = a[q]) \/ (\E q \in 1..j : s[p] = b[q])
        BY <1>2, <1>4, <3>1 DEF Merging
      <3> QED BY <3>1, <3>2
    <2> QED BY <2>1, <2>2
  <1>15. PICK x : x = [ofA |-> i + 1, out |-> t]
    OBVIOUS
  <1>16. x.ofA = i + 1 /\ x.out = t /\ (k + 1) - x.ofA = j
    BY <1>3, <1>15
  <1>17. /\ x.ofA \in 0..Len(a) /\ (k + 1) - x.ofA \in 0..Len(b)
         /\ x.out \in Seq(S) /\ Len(x.out) = k + 1 /\ Sorted(x.out)
    BY <1>1, <1>3, <1>7, <1>9, <1>16
  <1>18. \A p \in 1..(k + 1) : /\ x.ofA < Len(a) => Before(x.out[p], a[x.ofA + 1])
                               /\ (k + 1) - x.ofA < Len(b) => Before(x.out[p], b[(k + 1) - x.ofA + 1])
    BY <1>1, <1>11, <1>16
  <1>19. /\ \A q \in 1..x.ofA : \E p \in 1..(k + 1) : x.out[p] = a[q]
         /\ \A q \in 1..((k + 1) - x.ofA) : \E p \in 1..(k + 1) : x.out[p] = b[q]
         /\ \A p \in 1..(k + 1) : \/ \E q \in 1..x.ofA : x.out[p] = a[q]
                                  \/ \E q \in 1..((k + 1) - x.ofA) : x.out[p] = b[q]
    <2>1. \A q \in 1..x.ofA : \E p \in 1..(k + 1) : x.out[p] = a[q]
      BY <1>12, <1>16
    <2>2. \A q \in 1..((k + 1) - x.ofA) : \E p \in 1..(k + 1) : x.out[p] = b[q]
      BY <1>13, <1>16
    <2>3. \A p \in 1..(k + 1) : \/ \E q \in 1..x.ofA : x.out[p] = a[q]
                               \/ \E q \in 1..((k + 1) - x.ofA) : x.out[p] = b[q]
      BY <1>14, <1>16
    <2> QED BY <2>1, <2>2, <2>3
  <1>20. Merging(S, a, b, k + 1, x)
    BY <1>17, <1>18, <1>19, Zenon DEF Merging
  <1> QED BY <1>2, <1>4, <1>5, <1>6, <1>15, <1>20 DEF TakeFirst

Disjoint(a, b) == RecordsOf(a) \cap RecordsOf(b) = {}

LEMMA OtherFirst ==
  ASSUME NEW S, S \subseteq Item, Unlike(S), NEW a \in Seq(S), NEW b \in Seq(S), Disjoint(a, b),
         NEW i \in 1..Len(a), NEW j \in 1..Len(b), ~Before(a[i], b[j])
  PROVE  Before(b[j], a[i])
  <1>1. a[i] \in S /\ b[j] \in S
    OBVIOUS
  <1>2. a[i] \in RecordsOf(a) /\ b[j] \in RecordsOf(b)
    BY DEF RecordsOf
  <1>3. a[i] # b[j]
    BY <1>2 DEF Disjoint
  <1>4. a[i].unique # b[j].unique
    BY <1>1, <1>3 DEF Unlike
  <1> QED BY <1>1, <1>4, BeforeTotal

LEMMA MergesSecond ==
  ASSUME NEW S, S \subseteq Item, Unlike(S), NEW a \in Seq(S), NEW b \in Seq(S), Sorted(a), Sorted(b), Disjoint(a, b),
         NEW k \in Nat, NEW l, Merging(S, a, b, k, l), k < Len(a) + Len(b),
         NEW i \in Nat, NEW j \in Nat, Done(k, l, i, j), ~FromFirst(a, b, i, j)
  PROVE  Merging(S, a, b, k + 1, TakeSecond(l, b[j + 1]))
  <1>1. PICK m \in Nat, n \in Nat : m = Len(a) /\ n = Len(b)
    OBVIOUS
  <1>2. i = l.ofA /\ j = k - l.ofA
    BY DEF Done
  <1>3. i \in 0..m /\ j \in 0..n /\ i + j = k
    BY <1>1, <1>2 DEF Merging
  <1>4. j < n /\ (i < m => ~Before(a[i + 1], b[j + 1]))
    <2>1. ~(i < m /\ (j = n \/ Before(a[i + 1], b[j + 1])))
      BY <1>1, <1>2 DEF FromFirst
    <2>2. i + j < m + n
      BY <1>1, <1>3
    <2>3. i = m => j < n
      BY <1>3, <2>2
    <2>4. i < m => j # n /\ ~Before(a[i + 1], b[j + 1])
      BY <2>1
    <2>5. i < m \/ i = m
      BY <1>3
    <2> QED BY <1>3, <2>3, <2>4, <2>5
  <1>5. i < m => Before(b[j + 1], a[i + 1]) /\ a[i + 1] \in S
    <2>1. i < m => i + 1 \in 1..Len(a)
      BY <1>1, <1>3
    <2>2. j + 1 \in 1..Len(b)
      BY <1>1, <1>3, <1>4
    <2> QED BY <1>4, <2>1, <2>2, OtherFirst
  <1>6. PICK s \in Seq(S) : s = l.out /\ Len(s) = k /\ Sorted(s)
    BY DEF Merging
  <1>7. PICK e \in S : e = b[j + 1]
    BY <1>1, <1>3, <1>4
  <1>8. PICK t : t = Append(s, e)
    OBVIOUS
  <1>9. t \in Seq(S) /\ Len(t) = k + 1 /\ t[k + 1] = e /\ \A p \in 1..k : t[p] = s[p] /\ s[p] \in S
    <2>1. \A p \in 1..k : s[p] \in S
      BY <1>6
    <2>2. t \in Seq(S) /\ Len(t) = k + 1 /\ t[k + 1] = e /\ \A p \in 1..k : t[p] = s[p]
      BY <1>6, <1>8, AppendIs
    <2> QED BY <2>1, <2>2
  <1>10. \A p \in 1..k : Before(s[p], e) /\ (i < m => Before(s[p], a[i + 1]))
    BY <1>1, <1>2, <1>4, <1>6, <1>7 DEF Merging
  <1>11. Sorted(t)
    BY <1>6, <1>8, <1>10, AppendSorted
  <1>12. j + 1 < n => b[j + 2] \in S /\ Before(e, b[j + 2])
    <2>1. j + 1 < n => j + 1 \in 1..n /\ j + 2 \in 1..n /\ j + 1 < j + 2
      BY <1>1, <1>3
    <2> QED BY <1>1, <1>7, <2>1 DEF Sorted
  <1>13. ASSUME NEW p \in 1..(k + 1)
         PROVE  (j + 1 < n => Before(t[p], b[j + 2])) /\ (i < m => Before(t[p], a[i + 1]))
    <2>1. CASE p = k + 1
      BY <1>3, <1>5, <1>7, <1>9, <1>12, <2>1
    <2>2. CASE p # k + 1
      <3>1. p \in 1..k
        BY <2>2
      <3>2. t[p] = s[p] /\ s[p] \in Item /\ e \in Item /\ Before(s[p], e) /\ (i < m => Before(s[p], a[i + 1]))
        BY <1>9, <1>10, <3>1
      <3>3. j + 1 < n => b[j + 2] \in Item
        BY <1>12
      <3> QED BY <1>12, <3>2, <3>3, BeforeTransitive
    <2> QED BY <2>1, <2>2
  <1>14. ASSUME NEW q \in 1..(j + 1) PROVE \E p \in 1..(k + 1) : t[p] = b[q]
    <2>1. CASE q = j + 1
      <3>1. k + 1 \in 1..(k + 1)
        OBVIOUS
      <3> QED BY <1>7, <1>9, <2>1, <3>1
    <2>2. CASE q # j + 1
      <3>1. q \in 1..j
        BY <2>2
      <3>2. \A r \in 1..j : \E p \in 1..k : s[p] = b[r]
        BY <1>2, <1>6 DEF Merging
      <3>3. PICK p \in 1..k : s[p] = b[q]
        BY <3>1, <3>2
      <3>4. p \in 1..(k + 1)
        OBVIOUS
      <3> QED BY <1>9, <3>3, <3>4
    <2> QED BY <2>1, <2>2
  <1>15. ASSUME NEW q \in 1..i PROVE \E p \in 1..(k + 1) : t[p] = a[q]
    <2>1. PICK p \in 1..k : s[p] = a[q]
      BY <1>2, <1>6 DEF Merging
    <2>2. p \in 1..(k + 1)
      OBVIOUS
    <2> QED BY <1>9, <2>1, <2>2
  <1>16. ASSUME NEW p \in 1..(k + 1)
         PROVE  (\E q \in 1..i : t[p] = a[q]) \/ (\E q \in 1..(j + 1) : t[p] = b[q])
    <2>1. CASE p = k + 1
      <3>1. j + 1 \in 1..(j + 1)
        BY <1>3
      <3> QED BY <1>7, <1>9, <2>1, <3>1
    <2>2. CASE p # k + 1
      <3>1. p \in 1..k /\ t[p] = s[p]
        BY <1>9, <2>2
      <3>2. (\E q \in 1..i : s[p] = a[q]) \/ (\E q \in 1..j : s[p] = b[q])
        BY <1>2, <1>6, <3>1 DEF Merging
      <3>3. 1..j \subseteq 1..(j + 1)
        OBVIOUS
      <3> QED BY <3>1, <3>2, <3>3
    <2> QED BY <2>1, <2>2
  <1>17. PICK x : x = [ofA |-> i, out |-> t]
    OBVIOUS
  <1>18. x.ofA = i /\ x.out = t /\ (k + 1) - x.ofA = j + 1
    BY <1>3, <1>17
  <1>19. /\ x.ofA \in 0..Len(a) /\ (k + 1) - x.ofA \in 0..Len(b)
         /\ x.out \in Seq(S) /\ Len(x.out) = k + 1 /\ Sorted(x.out)
    BY <1>1, <1>3, <1>4, <1>9, <1>11, <1>18
  <1>20. \A p \in 1..(k + 1) : /\ x.ofA < Len(a) => Before(x.out[p], a[x.ofA + 1])
                               /\ (k + 1) - x.ofA < Len(b) => Before(x.out[p], b[(k + 1) - x.ofA + 1])
    <2>1. (k + 1) - x.ofA + 1 = j + 2
      BY <1>3, <1>18
    <2> QED BY <1>1, <1>13, <1>18, <2>1
  <1>21. /\ \A q \in 1..x.ofA : \E p \in 1..(k + 1) : x.out[p] = a[q]
         /\ \A q \in 1..((k + 1) - x.ofA) : \E p \in 1..(k + 1) : x.out[p] = b[q]
         /\ \A p \in 1..(k + 1) : \/ \E q \in 1..x.ofA : x.out[p] = a[q]
                                  \/ \E q \in 1..((k + 1) - x.ofA) : x.out[p] = b[q]
    <2>1. \A q \in 1..x.ofA : \E p \in 1..(k + 1) : x.out[p] = a[q]
      BY <1>15, <1>18
    <2>2. \A q \in 1..((k + 1) - x.ofA) : \E p \in 1..(k + 1) : x.out[p] = b[q]
      BY <1>14, <1>18
    <2>3. \A p \in 1..(k + 1) : \/ \E q \in 1..x.ofA : x.out[p] = a[q]
                               \/ \E q \in 1..((k + 1) - x.ofA) : x.out[p] = b[q]
      BY <1>16, <1>18
    <2> QED BY <2>1, <2>2, <2>3
  <1>22. Merging(S, a, b, k + 1, x)
    BY <1>19, <1>20, <1>21, Zenon DEF Merging
  <1> QED BY <1>2, <1>6, <1>7, <1>8, <1>17, <1>22 DEF TakeSecond

\* Two sorted blocks become one, with the records of both.
LEMMA MergeSorts ==
  ASSUME NEW S, S \subseteq Item, Unlike(S), NEW a \in Seq(S), NEW b \in Seq(S), Sorted(a), Sorted(b), Disjoint(a, b)
  PROVE  /\ Merge(a, b) \in Seq(S) /\ Sorted(Merge(a, b))
         /\ RecordsOf(Merge(a, b)) = RecordsOf(a) \cup RecordsOf(b)
  <1>1. PICK m \in Nat, n \in Nat : m = Len(a) /\ n = Len(b)
    OBVIOUS
  <1>0. PICK N \in Nat : N = m + n
    OBVIOUS
  <1>2. PICK f : MergedBy(a, b, N, f)
    <2>1. Len(a) + Len(b) = N
      BY <1>0, <1>1
    <2> QED BY <2>1, MergeIs
  <1>3. /\ f[0] = MergeStart
        /\ \A k \in 1..N : f[k] = MergeStep(a, b, k, f[k - 1])
        /\ Merge(a, b) = f[N].out
    BY <1>2 DEF MergedBy
  <1>4. PICK T : T = {k \in 0..N : Merging(S, a, b, k, f[k])}
    OBVIOUS
  <1>5. 0 \in T
    <2>1. f[0].ofA = 0 /\ f[0].out = <<>>
      BY <1>3 DEF MergeStart
    <2>2. Merging(S, a, b, 0, f[0])
      BY <1>1, <2>1 DEF Merging, Sorted
    <2> QED BY <1>4, <2>2
  <1>6. ASSUME NEW k \in 0..(N - 1), k \in T PROVE k + 1 \in T
    <2>1. Merging(S, a, b, k, f[k]) /\ k \in Nat /\ k < N
      BY <1>4, <1>6
    <2>2. PICK l : l = f[k]
      OBVIOUS
    <2>3. k + 1 \in 1..N /\ (k + 1) - 1 = k
      OBVIOUS
    <2>4. f[k + 1] = MergeStep(a, b, k + 1, l)
      BY <1>3, <2>2, <2>3
    <2>5. PICK i \in Nat, j \in Nat : Done(k, l, i, j)
      <3>1. l.ofA \in 0..Len(a) /\ k - l.ofA \in 0..Len(b)
        BY <2>1, <2>2 DEF Merging
      <3>2. PICK i \in Nat : i = l.ofA
        BY <3>1
      <3>3. k - i \in Nat /\ k = i + (k - i)
        BY <3>1, <3>2
      <3> QED BY <3>2, <3>3 DEF Done
    <2>6. Merging(S, a, b, k, l) /\ k < Len(a) + Len(b)
      BY <1>0, <1>1, <2>1, <2>2
    <2>7. CASE FromFirst(a, b, i, j)
      <3>1. Merging(S, a, b, k + 1, TakeFirst(l, a[i + 1]))
        BY <2>1, <2>5, <2>6, <2>7, MergesFirst
      <3>2. MergeStep(a, b, k + 1, l) = TakeFirst(l, a[i + 1])
        BY <2>1, <2>5, <2>7, MergeStepIs
      <3> QED BY <1>4, <2>3, <2>4, <3>1, <3>2
    <2>8. CASE ~FromFirst(a, b, i, j)
      <3>1. Merging(S, a, b, k + 1, TakeSecond(l, b[j + 1]))
        BY <2>1, <2>5, <2>6, <2>8, MergesSecond
      <3>2. MergeStep(a, b, k + 1, l) = TakeSecond(l, b[j + 1])
        BY <2>1, <2>5, <2>8, MergeStepIs
      <3> QED BY <1>4, <2>3, <2>4, <3>1, <3>2
    <2> QED BY <2>7, <2>8
  <1>7. Merging(S, a, b, N, f[N])
    <2>1. N \in Nat /\ N \in 0..N
      OBVIOUS
    <2>2. \A k \in 0..(N - 1) : k \in T => k + 1 \in T
      BY <1>6
    <2>3. \A k \in 0..N : k \in T
      BY <1>5, <2>1, <2>2, CountingUp
    <2> QED BY <1>4, <2>1, <2>3
  <1>8. PICK l : l = f[N]
    OBVIOUS
  <1>9. PICK c \in Seq(S) : c = l.out /\ Len(c) = N /\ Sorted(c)
    BY <1>7, <1>8 DEF Merging
  <1>10. l.ofA = m /\ N - l.ofA = n
    <2>1. l.ofA \in 0..m /\ N - l.ofA \in 0..n
      BY <1>1, <1>7, <1>8 DEF Merging
    <2>2. PICK i \in 0..m : i = l.ofA
      BY <2>1
    <2>3. i = m /\ N - i = n
      BY <1>0, <2>1, <2>2
    <2> QED BY <2>2, <2>3
  <1>11. /\ \A i \in 1..m : \E p \in 1..N : c[p] = a[i]
         /\ \A i \in 1..n : \E p \in 1..N : c[p] = b[i]
         /\ \A p \in 1..N : (\E i \in 1..m : c[p] = a[i]) \/ (\E i \in 1..n : c[p] = b[i])
    BY <1>7, <1>8, <1>9, <1>10 DEF Merging
  <1>12. DOMAIN a = 1..m /\ DOMAIN b = 1..n /\ DOMAIN c = 1..N
    BY <1>1, <1>9
  <1>13. RecordsOf(c) = RecordsOf(a) \cup RecordsOf(b)
    <2>1. /\ RecordsOf(a) = {a[i] : i \in 1..m} /\ RecordsOf(b) = {b[i] : i \in 1..n}
          /\ RecordsOf(c) = {c[p] : p \in 1..N}
      BY <1>12 DEF RecordsOf
    <2>2. RecordsOf(c) \subseteq RecordsOf(a) \cup RecordsOf(b)
      BY <1>11, <2>1
    <2>3. RecordsOf(a) \subseteq RecordsOf(c)
      BY <1>11, <2>1
    <2>4. RecordsOf(b) \subseteq RecordsOf(c)
      BY <1>11, <2>1
    <2> QED BY <2>2, <2>3, <2>4
  <1> QED BY <1>3, <1>8, <1>9, <1>13

-----------------------------------------------------------------------------
(* One pass over two queues of blocks.                                                   *)

\* The blocks of two queues are sorted, of records in S, and have no record in common.
Good(S, f) ==
  /\ \A x \in {1, 2} : f[x] \in Seq(Seq(S)) /\ \A i \in 1..Len(f[x]) : Sorted(f[x][i])
  /\ \A x, y \in {1, 2} : \A i \in 1..Len(f[x]), j \in 1..Len(f[y]) :
       (x = y /\ i = j) \/ Disjoint(f[x][i], f[y][j])
In(f) == RecordsIn(f[1]) \cup RecordsIn(f[2])

LEMMA InIs ==
  ASSUME NEW S, NEW f, Good(S, f)
  PROVE  \A r : r \in In(f) <=> \E x \in {1, 2} : \E i \in 1..Len(f[x]) : r \in RecordsOf(f[x][i])
  <1>1. \A x \in {1, 2} : f[x] \in Seq(Seq(S))
    BY DEF Good
  <1>2. \A x \in {1, 2} : DOMAIN f[x] = 1..Len(f[x])
    BY <1>1
  <1> QED BY <1>2 DEF In, RecordsIn

LEMMA NoRecords ==
  /\ RecordsOf(<<>>) = {} /\ Sorted(<<>>)
  /\ \A S : <<>> \in Seq(S)
  /\ \A s : Disjoint(s, <<>>) /\ Disjoint(<<>>, s)
  <1>1. RecordsOf(<<>>) = {}
    BY DEF RecordsOf
  <1>2. Sorted(<<>>)
    BY DEF Sorted
  <1> QED BY <1>1, <1>2 DEF Disjoint

LEMMA BlockIs ==
  ASSUME NEW S, NEW f, Good(S, f), NEW x \in {1, 2}, NEW n \in Nat, n > 0
  PROVE  /\ Block(f[x], n) \in Seq(S) /\ Sorted(Block(f[x], n))
         /\ n \in 1..Len(f[x]) => Block(f[x], n) = f[x][n]
         /\ n \notin 1..Len(f[x]) => Block(f[x], n) = <<>>
  <1>1. f[x] \in Seq(Seq(S)) /\ Len(f[x]) \in Nat /\ \A i \in 1..Len(f[x]) : Sorted(f[x][i]) /\ f[x][i] \in Seq(S)
    BY DEF Good
  <1>2. CASE n \in 1..Len(f[x])
    BY <1>1, <1>2 DEF Block
  <1>3. CASE n \notin 1..Len(f[x])
    <2>1. ~(n <= Len(f[x]))
      BY <1>1, <1>3
    <2>2. Block(f[x], n) = <<>>
      BY <2>1 DEF Block
    <2> QED BY <1>3, <2>2, NoRecords
  <1> QED BY <1>2, <1>3

LEMMA BlocksApart ==
  ASSUME NEW S, NEW f, Good(S, f), NEW x \in {1, 2}, NEW y \in {1, 2}, NEW n \in Nat, n > 0, NEW m \in Nat, m > 0,
         x # y \/ n # m
  PROVE  Disjoint(Block(f[x], n), Block(f[y], m))
  <1>1. CASE n \in 1..Len(f[x]) /\ m \in 1..Len(f[y])
    <2>1. Block(f[x], n) = f[x][n]
      BY <1>1, BlockIs
    <2>2. Block(f[y], m) = f[y][m]
      BY <1>1, BlockIs
    <2> QED BY <1>1, <2>1, <2>2 DEF Good
  <1>2. CASE n \notin 1..Len(f[x])
    <2>1. Block(f[x], n) = <<>>
      BY <1>2, BlockIs, SMTT(40)
    <2> QED BY <2>1, NoRecords
  <1>3. CASE m \notin 1..Len(f[y])
    <2>1. Block(f[y], m) = <<>>
      BY <1>3, BlockIs
    <2> QED BY <2>1, NoRecords
  <1> QED BY <1>1, <1>2, <1>3

LEMMA MergedIs ==
  ASSUME NEW S, S \subseteq Item, Unlike(S), NEW f, Good(S, f), NEW n \in Nat, n > 0
  PROVE  /\ Merged(f, n) \in Seq(S) /\ Sorted(Merged(f, n))
         /\ RecordsOf(Merged(f, n)) = RecordsOf(Block(f[1], n)) \cup RecordsOf(Block(f[2], n))
  <1>1. PICK a : a = Block(f[1], n)
    OBVIOUS
  <1>2. PICK b : b = Block(f[2], n)
    OBVIOUS
  <1>3. a \in Seq(S) /\ Sorted(a)
    BY <1>1, BlockIs
  <1>4. b \in Seq(S) /\ Sorted(b)
    BY <1>2, BlockIs
  <1>5. Disjoint(a, b)
    BY <1>1, <1>2, BlocksApart
  <1>6. /\ Merge(a, b) \in Seq(S) /\ Sorted(Merge(a, b))
        /\ RecordsOf(Merge(a, b)) = RecordsOf(a) \cup RecordsOf(b)
    BY <1>3, <1>4, <1>5, MergeSorts
  <1> QED BY <1>1, <1>2, <1>6 DEF Merged

LEMMA MergedApart ==
  ASSUME NEW S, S \subseteq Item, Unlike(S), NEW f, Good(S, f), NEW n \in Nat, n > 0, NEW m \in Nat, m > 0, n # m
  PROVE  Disjoint(Merged(f, n), Merged(f, m))
  <1>1. RecordsOf(Merged(f, n)) = RecordsOf(Block(f[1], n)) \cup RecordsOf(Block(f[2], n))
    BY MergedIs
  <1>2. RecordsOf(Merged(f, m)) = RecordsOf(Block(f[1], m)) \cup RecordsOf(Block(f[2], m))
    BY MergedIs
  <1>3. \A x, y \in {1, 2} : Disjoint(Block(f[x], n), Block(f[y], m))
    BY BlocksApart
  <1>4. /\ Disjoint(Block(f[1], n), Block(f[1], m)) /\ Disjoint(Block(f[1], n), Block(f[2], m))
        /\ Disjoint(Block(f[2], n), Block(f[1], m)) /\ Disjoint(Block(f[2], n), Block(f[2], m))
    BY <1>3
  <1> QED BY <1>1, <1>2, <1>4 DEF Disjoint

\* Two queues that take turns with the blocks g[1], g[2], ..., g[n].
Dealt(g, n) == << [i \in 1..((n + 1) \div 2) |-> g[2 * i - 1]], [i \in 1..(n \div 2) |-> g[2 * i]] >>

HowDealt(X, d, g, n) ==
  /\ d[1] \in Seq(X) /\ Len(d[1]) = (n + 1) \div 2
  /\ d[2] \in Seq(X) /\ Len(d[2]) = n \div 2
  /\ \A i \in 1..((n + 1) \div 2) : 2 * i - 1 \in 1..n /\ d[1][i] = g[2 * i - 1]
  /\ \A i \in 1..(n \div 2) : 2 * i \in 1..n /\ d[2][i] = g[2 * i]

LEMMA DealtIs == ASSUME NEW X, NEW n \in Nat, NEW g \in [1..n -> X] PROVE HowDealt(X, Dealt(g, n), g, n)
  <1>1. PICK l \in Nat : l = (n + 1) \div 2
    OBVIOUS
  <1>2. PICK k \in Nat : k = n \div 2
    OBVIOUS
  <1>3. \A i \in 1..l : 2 * i - 1 \in 1..n
    BY <1>1
  <1>4. \A i \in 1..k : 2 * i \in 1..n
    BY <1>2
  <1>5. PICK a : a = [i \in 1..l |-> g[2 * i - 1]]
    OBVIOUS
  <1>6. a \in [1..l -> X] /\ \A i \in 1..l : a[i] = g[2 * i - 1]
    BY <1>3, <1>5
  <1>7. PICK b : b = [i \in 1..k |-> g[2 * i]]
    OBVIOUS
  <1>8. b \in [1..k -> X] /\ \A i \in 1..k : b[i] = g[2 * i]
    BY <1>4, <1>7
  <1>9. a \in Seq(X) /\ Len(a) = l /\ b \in Seq(X) /\ Len(b) = k
    BY <1>6, <1>8
  <1>10. Dealt(g, n) = <<a, b>>
    BY <1>1, <1>2, <1>5, <1>7 DEF Dealt
  <1>11. Dealt(g, n)[1] = a /\ Dealt(g, n)[2] = b
    BY <1>10
  <1>12. PICK d : d = Dealt(g, n)
    OBVIOUS
  <1>13. d[1] = a /\ d[2] = b
    BY <1>11, <1>12
  <1>14. HowDealt(X, d, g, n)
    BY <1>1, <1>2, <1>3, <1>4, <1>6, <1>8, <1>9, <1>13 DEF HowDealt
  <1> QED BY <1>12, <1>14

LEMMA Halves == \A i \in Nat : i = 2 * ((i + 1) \div 2) - 1 \/ i = 2 * (i \div 2)
  OBVIOUS

LEMMA DealtGood ==
  ASSUME NEW S, NEW n \in Nat, NEW g \in [1..n -> Seq(S)], \A i \in 1..n : Sorted(g[i]),
         \A i, j \in 1..n : i = j \/ Disjoint(g[i], g[j])
  PROVE  /\ Good(S, Dealt(g, n))
         /\ \A r : r \in In(Dealt(g, n)) <=> \E i \in 1..n : r \in RecordsOf(g[i])
  <1>1. PICK d : d = Dealt(g, n)
    OBVIOUS
  <1>2. PICK l \in Nat : l = (n + 1) \div 2
    OBVIOUS
  <1>3. PICK k \in Nat : k = n \div 2
    OBVIOUS
  <1>4. /\ d[1] \in Seq(Seq(S)) /\ Len(d[1]) = l /\ d[2] \in Seq(Seq(S)) /\ Len(d[2]) = k
        /\ \A i \in 1..l : 2 * i - 1 \in 1..n /\ d[1][i] = g[2 * i - 1]
        /\ \A i \in 1..k : 2 * i \in 1..n /\ d[2][i] = g[2 * i]
    <2>1. PICK X : X = Seq(S)
      OBVIOUS
    <2>2. g \in [1..n -> X]
      BY <2>1
    <2>3. HowDealt(X, d, g, n)
      BY <1>1, <2>2, DealtIs
    <2> QED BY <1>2, <1>3, <2>1, <2>3 DEF HowDealt
  <1>5. \A i \in 1..l : 2 * i - 1 \in 1..n /\ d[1][i] = g[2 * i - 1]
    BY <1>4
  <1>6. \A i \in 1..k : 2 * i \in 1..n /\ d[2][i] = g[2 * i]
    BY <1>4
  <1>7. ASSUME NEW x \in {1, 2}, NEW i \in 1..Len(d[x]) PROVE Sorted(d[x][i])
    <2>1. CASE x = 1
      BY <1>4, <1>5, <2>1
    <2>2. CASE x = 2
      BY <1>4, <1>6, <2>2
    <2> QED BY <2>1, <2>2
  <1>8. ASSUME NEW i \in 1..l, NEW j \in 1..l PROVE i = j \/ Disjoint(d[1][i], d[1][j])
    <2>1. 2 * i - 1 = 2 * j - 1 => i = j
      OBVIOUS
    <2> QED BY <1>5, <2>1
  <1>9. ASSUME NEW i \in 1..k, NEW j \in 1..k PROVE i = j \/ Disjoint(d[2][i], d[2][j])
    <2>1. 2 * i = 2 * j => i = j
      OBVIOUS
    <2> QED BY <1>6, <2>1
  <1>10. ASSUME NEW i \in 1..l, NEW j \in 1..k PROVE Disjoint(d[1][i], d[2][j]) /\ Disjoint(d[2][j], d[1][i])
    <2>1. 2 * i - 1 # 2 * j
      OBVIOUS
    <2> QED BY <1>5, <1>6, <2>1
  <1>11. ASSUME NEW x \in {1, 2}, NEW y \in {1, 2}, NEW i \in 1..Len(d[x]), NEW j \in 1..Len(d[y])
         PROVE  (x = y /\ i = j) \/ Disjoint(d[x][i], d[y][j])
    <2>1. CASE x = 1 /\ y = 1
      BY <1>4, <1>8, <2>1
    <2>2. CASE x = 2 /\ y = 2
      BY <1>4, <1>9, <2>2
    <2>3. CASE x = 1 /\ y = 2
      BY <1>4, <1>10, <2>3
    <2>4. CASE x = 2 /\ y = 1
      BY <1>4, <1>10, <2>4
    <2> QED BY <2>1, <2>2, <2>3, <2>4
  <1>12. \A x \in {1, 2} : d[x] \in Seq(Seq(S))
    BY <1>4
  <1>13. Good(S, d)
    BY <1>7, <1>11, <1>12 DEF Good
  <1>14. ASSUME NEW r, r \in In(d) PROVE \E i \in 1..n : r \in RecordsOf(g[i])
    <2>1. PICK x \in {1, 2} : \E i \in 1..Len(d[x]) : r \in RecordsOf(d[x][i])
      BY <1>13, <1>14, InIs
    <2>2. PICK i \in 1..Len(d[x]) : r \in RecordsOf(d[x][i])
      BY <2>1
    <2>3. CASE x = 1
      BY <1>4, <1>5, <2>2, <2>3
    <2>4. CASE x = 2
      BY <1>4, <1>6, <2>2, <2>4
    <2> QED BY <2>3, <2>4
  <1>15. ASSUME NEW r, NEW i \in 1..n, r \in RecordsOf(g[i]) PROVE r \in In(d)
    <2>1. (\E j \in 1..l : i = 2 * j - 1) \/ (\E j \in 1..k : i = 2 * j)
      <3>1. i = 2 * ((i + 1) \div 2) - 1 \/ i = 2 * (i \div 2)
        BY Halves
      <3>2. i = 2 * ((i + 1) \div 2) - 1 => (i + 1) \div 2 \in 1..l
        BY <1>2
      <3>3. i = 2 * (i \div 2) => i \div 2 \in 1..k
        BY <1>3
      <3> QED BY <3>1, <3>2, <3>3
    <2>2. CASE \E j \in 1..l : i = 2 * j - 1
      <3>1. PICK j \in 1..l : i = 2 * j - 1
        BY <2>2
      <3>2. j \in 1..Len(d[1]) /\ r \in RecordsOf(d[1][j])
        BY <1>4, <1>5, <1>15, <3>1
      <3> QED BY <1>13, <3>2, InIs
    <2>3. CASE \E j \in 1..k : i = 2 * j
      <3>1. PICK j \in 1..k : i = 2 * j
        BY <2>3
      <3>2. j \in 1..Len(d[2]) /\ r \in RecordsOf(d[2][j])
        BY <1>4, <1>6, <1>15, <3>1
      <3> QED BY <1>13, <3>2, InIs
    <2> QED BY <2>1, <2>2, <2>3
  <1> QED BY <1>1, <1>13, <1>14, <1>15

LEMMA PassIs ==
  ASSUME NEW f, Len(f[1]) \in Nat, Len(f[2]) \in Nat, Len(f[1]) >= Len(f[2])
  PROVE  Pass(f) = Dealt([n \in 1..Len(f[1]) |-> Merged(f, n)], Len(f[1]))
  <1>1. PICK n \in Nat : n = Len(f[1])
    OBVIOUS
  <1>2. Longer(f) = n
    BY <1>1 DEF Longer
  <1>3. PICK g : g = [i \in 1..n |-> Merged(f, i)]
    OBVIOUS
  <1>4. \A i \in 1..((n + 1) \div 2) : g[2 * i - 1] = Merged(f, 2 * i - 1)
    <2>1. \A i \in 1..((n + 1) \div 2) : 2 * i - 1 \in 1..n
      OBVIOUS
    <2> QED BY <1>3, <2>1
  <1>5. \A i \in 1..(n \div 2) : g[2 * i] = Merged(f, 2 * i)
    <2>1. \A i \in 1..(n \div 2) : 2 * i \in 1..n
      OBVIOUS
    <2> QED BY <1>3, <2>1
  <1>6. [i \in 1..((n + 1) \div 2) |-> g[2 * i - 1]] = [i \in 1..((n + 1) \div 2) |-> Merged(f, 2 * i - 1)]
    BY <1>4
  <1>7. [i \in 1..(n \div 2) |-> g[2 * i]] = [i \in 1..(n \div 2) |-> Merged(f, 2 * i)]
    BY <1>5
  <1>8. Pass(f) = Dealt(g, n)
    BY <1>2, <1>6, <1>7, Zenon DEF Pass, Dealt
  <1> QED BY <1>1, <1>3, <1>8

\* A pass keeps the records and halves the number of blocks.
LEMMA PassGood ==
  ASSUME NEW S, S \subseteq Item, Unlike(S), NEW f, Good(S, f), Len(f[1]) >= Len(f[2])
  PROVE  /\ Good(S, Pass(f)) /\ In(Pass(f)) = In(f)
         /\ Len(Pass(f)[1]) = (Len(f[1]) + 1) \div 2 /\ Len(Pass(f)[2]) = Len(f[1]) \div 2
  <1>1. f[1] \in Seq(Seq(S)) /\ f[2] \in Seq(Seq(S))
    BY DEF Good
  <1>2. PICK n \in Nat, m \in Nat : n = Len(f[1]) /\ m = Len(f[2]) /\ n >= m
    BY <1>1
  <1>3. PICK g : g = [i \in 1..n |-> Merged(f, i)]
    OBVIOUS
  <1>4. \A i \in 1..n : i \in Nat /\ i > 0 /\ g[i] = Merged(f, i)
    BY <1>3
  <1>5. \A i \in 1..n : Merged(f, i) \in Seq(S) /\ Sorted(Merged(f, i))
    BY <1>4, MergedIs
  <1>6. g \in [1..n -> Seq(S)] /\ \A i \in 1..n : Sorted(g[i])
    BY <1>3, <1>5
  <1>7. \A i, j \in 1..n : i = j \/ Disjoint(g[i], g[j])
    BY <1>4, MergedApart
  <1>8. Pass(f) = Dealt(g, n)
    BY <1>1, <1>2, <1>3, PassIs
  <1>9. Good(S, Dealt(g, n)) /\ \A r : r \in In(Dealt(g, n)) <=> \E i \in 1..n : r \in RecordsOf(g[i])
    BY <1>6, <1>7, DealtGood
  <1>10. Len(Dealt(g, n)[1]) = (n + 1) \div 2 /\ Len(Dealt(g, n)[2]) = n \div 2
    <2>1. PICK X : X = Seq(S)
      OBVIOUS
    <2>2. g \in [1..n -> X]
      BY <1>6, <2>1
    <2>3. HowDealt(X, Dealt(g, n), g, n)
      BY <2>2, DealtIs
    <2> QED BY <2>3 DEF HowDealt
  <1>11. \A r : r \in In(f) <=> \E i \in 1..n : r \in RecordsOf(g[i])
    <2>1. \A i \in 1..n : RecordsOf(g[i]) = RecordsOf(Block(f[1], i)) \cup RecordsOf(Block(f[2], i))
      BY <1>4, MergedIs
    <2>2. ASSUME NEW r, r \in In(f) PROVE \E i \in 1..n : r \in RecordsOf(g[i])
      <3>1. PICK x \in {1, 2} : \E i \in 1..Len(f[x]) : r \in RecordsOf(f[x][i])
        BY <2>2, InIs
      <3>2. PICK i \in 1..Len(f[x]) : r \in RecordsOf(f[x][i])
        BY <3>1
      <3>3. i \in 1..n
        BY <1>1, <1>2
      <3>4. Block(f[x], i) = f[x][i]
        BY <1>4, <3>3, BlockIs
      <3>5. r \in RecordsOf(Block(f[1], i)) \/ r \in RecordsOf(Block(f[2], i))
        BY <3>2, <3>4
      <3> QED BY <2>1, <3>3, <3>5
    <2>3. ASSUME NEW r, NEW i \in 1..n, r \in RecordsOf(g[i]) PROVE r \in In(f)
      <3>1. PICK x \in {1, 2} : r \in RecordsOf(Block(f[x], i))
        BY <2>1, <2>3
      <3>2. i \in 1..Len(f[x])
        <4>1. i \notin 1..Len(f[x]) => Block(f[x], i) = <<>>
          BY <1>4, BlockIs
        <4> QED BY <3>1, <4>1, NoRecords
      <3>3. Block(f[x], i) = f[x][i]
        BY <1>4, <3>2, BlockIs
      <3> QED BY <3>1, <3>2, <3>3, InIs
    <2> QED BY <2>2, <2>3
  <1> QED BY <1>2, <1>8, <1>9, <1>10, <1>11

-----------------------------------------------------------------------------
(* Passes until a block is left in each queue, or a single one.                          *)

PassStep(last, files) == IF Again(last, files) THEN Pass(last) ELSE last
PassRun(f, files, n, g) == g = [i \in 0..n |-> IF i = 0 THEN f ELSE PassStep(g[i - 1], files)]

LEMMA PassRunIs ==
  ASSUME NEW f, NEW files, NEW n \in Nat, NEW g, PassRun(f, files, n, g)
  PROVE  g[0] = f /\ \A i \in 1..n : g[i] = PassStep(g[i - 1], files)
  <1>1. g[0] = f
    BY DEF PassRun
  <1>2. ASSUME NEW i \in 1..n PROVE g[i] = PassStep(g[i - 1], files)
    <2>1. i \in 0..n /\ i # 0
      OBVIOUS
    <2> QED BY <2>1 DEF PassRun
  <1> QED BY <1>1, <1>2

LEMMA PassRuns ==
  ASSUME NEW f, NEW files, NEW n \in Nat
  PROVE  \E g : PassRun(f, files, n, g)
  <1>1. PICK T : T = {i \in 0..n : \E g : PassRun(f, files, i, g)}
    OBVIOUS
  <1>2. 0 \in T
    <2>1. PICK g : g = [i \in 0..0 |-> f]
      OBVIOUS
    <2>2. PassRun(f, files, 0, g)
      BY <2>1 DEF PassRun
    <2> QED BY <1>1, <2>2
  <1>3. ASSUME NEW i \in 0..(n - 1), i \in T PROVE i + 1 \in T
    <2>1. i \in Nat
      OBVIOUS
    <2>2. PICK g : PassRun(f, files, i, g)
      BY <1>1, <1>3
    <2>3. PICK e : e = PassStep(g[i], files)
      OBVIOUS
    <2>4. PICK h : h = [k \in 0..(i + 1) |-> IF k = i + 1 THEN e ELSE g[k]]
      OBVIOUS
    <2>5. ASSUME NEW k \in 0..(i + 1) PROVE h[k] = IF k = 0 THEN f ELSE PassStep(h[k - 1], files)
      <3>1. CASE k = 0
        <4>1. h[k] = g[0]
          BY <2>4, <3>1
        <4> QED BY <2>1, <2>2, <3>1, <4>1, PassRunIs
      <3>2. CASE k = i + 1
        <4>1. h[k] = e /\ h[k - 1] = g[i] /\ k # 0
          BY <2>4, <3>2
        <4> QED BY <2>3, <4>1
      <3>3. CASE k \in 1..i
        <4>1. h[k] = g[k] /\ h[k - 1] = g[k - 1] /\ k # 0
          BY <2>4, <3>3
        <4>2. g[k] = PassStep(g[k - 1], files)
          BY <2>1, <2>2, <3>3, PassRunIs
        <4> QED BY <4>1, <4>2
      <3> QED BY <3>1, <3>2, <3>3
    <2>6. h = [k \in 0..(i + 1) |-> h[k]]
      BY <2>4
    <2>7. PassRun(f, files, i + 1, h)
      BY <2>5, <2>6 DEF PassRun
    <2> QED BY <1>1, <2>7
  <1>4. \A i \in 0..n : i \in T
    BY <1>2, <1>3, CountingUp
  <1>5. n \in T
    BY <1>4
  <1> QED BY <1>1, <1>5

PassedBy(f, files, n, g) ==
  /\ g[0] = f /\ \A i \in 1..n : g[i] = PassStep(g[i - 1], files)
  /\ Passes(f, files) = g[n]

LEMMA PassesIs ==
  ASSUME NEW f, NEW files, NEW n \in Nat, Len(f[1]) = n
  PROVE  \E g : PassedBy(f, files, n, g)
  <1>1. \E g : PassRun(f, files, n, g)
    BY PassRuns
  <1>2. PICK g : PassRun(f, files, n, g) /\ Passes(f, files) = g[n]
    BY <1>1 DEF PassRun, Passes, PassStep
  <1>3. PassRun(f, files, n, g)
    BY <1>2
  <1>4. g[0] = f /\ \A i \in 1..n : g[i] = PassStep(g[i - 1], files)
    BY <1>3, PassRunIs
  <1> QED BY <1>2, <1>4 DEF PassedBy

\* The queues take turns: the first one is at most one block longer.
Balanced(f) == Len(f[1]) = Len(f[2]) \/ Len(f[1]) = Len(f[2]) + 1

\* After i passes over f.
Passing(S, f, files, i, q) ==
  /\ Good(S, q) /\ In(q) = In(f) /\ Balanced(q)
  /\ Len(f[1]) > 0 => Len(q[1]) > 0
  /\ Again(q, files) => Len(q[1]) <= Len(f[1]) - i

LEMMA PassingGoesOn ==
  ASSUME NEW S, S \subseteq Item, Unlike(S), NEW f, Good(S, f), NEW files \in BOOLEAN,
         NEW i \in Nat, NEW q, Passing(S, f, files, i, q)
  PROVE  Passing(S, f, files, i + 1, PassStep(q, files))
  <1>1. Good(S, q) /\ In(q) = In(f) /\ Balanced(q)
    BY DEF Passing
  <1>2. f[1] \in Seq(Seq(S)) /\ q[1] \in Seq(Seq(S)) /\ q[2] \in Seq(Seq(S))
    BY <1>1 DEF Good
  <1>3. PICK n \in Nat, l \in Nat, k \in Nat : n = Len(f[1]) /\ l = Len(q[1]) /\ k = Len(q[2])
    BY <1>2
  <1>4. (l = k \/ l = k + 1) /\ (n > 0 => l > 0) /\ (Again(q, files) => l <= n - i)
    BY <1>1, <1>3 DEF Passing, Balanced
  <1>5. CASE Again(q, files)
    <2>1. PICK p : p = Pass(q)
      OBVIOUS
    <2>2. Len(q[1]) >= Len(q[2])
      BY <1>3, <1>4
    <2>3. Good(S, p) /\ In(p) = In(q) /\ Len(p[1]) = (l + 1) \div 2 /\ Len(p[2]) = l \div 2
      <3>1. /\ Good(S, Pass(q)) /\ In(Pass(q)) = In(q)
            /\ Len(Pass(q)[1]) = (Len(q[1]) + 1) \div 2 /\ Len(Pass(q)[2]) = Len(q[1]) \div 2
        BY <1>1, <2>2, PassGood
      <3> QED BY <1>3, <2>1, <3>1
    <2>4. Balanced(p)
      <3>1. (l + 1) \div 2 = l \div 2 \/ (l + 1) \div 2 = l \div 2 + 1
        OBVIOUS
      <3> QED BY <2>3, <3>1 DEF Balanced
    <2>5. n > 0 => (l + 1) \div 2 > 0
      BY <1>4
    <2>6. Again(p, files) => (l + 1) \div 2 <= n - (i + 1)
      <3>1. CASE files
        <4>1. l > 1
          BY <1>3, <1>5, <3>1 DEF Again
        <4>2. (l + 1) \div 2 <= l - 1
          BY <4>1
        <4> QED BY <1>4, <1>5, <4>2
      <3>2. CASE ~files
        <4>1. Again(p, files) => l \div 2 > 0
          BY <2>3, <3>2 DEF Again
        <4>2. l \div 2 > 0 => (l + 1) \div 2 <= l - 1
          OBVIOUS
        <4> QED BY <1>4, <1>5, <4>1, <4>2
      <3> QED BY <3>1, <3>2
    <2>7. Passing(S, f, files, i + 1, p)
      BY <1>1, <1>3, <2>3, <2>4, <2>5, <2>6 DEF Passing
    <2> QED BY <1>5, <2>1, <2>7 DEF PassStep
  <1>6. CASE ~Again(q, files)
    <2>1. PassStep(q, files) = q
      BY <1>6 DEF PassStep
    <2> QED BY <1>6, <2>1 DEF Passing
  <1> QED BY <1>5, <1>6

\* The passes come to an end: one block, or one in each file.
LEMMA PassesGood ==
  ASSUME NEW S, S \subseteq Item, Unlike(S), NEW f, Good(S, f), Balanced(f), NEW files \in BOOLEAN
  PROVE  /\ Good(S, Passes(f, files)) /\ In(Passes(f, files)) = In(f) /\ Balanced(Passes(f, files))
         /\ Len(f[1]) > 0 => Len(Passes(f, files)[1]) > 0
         /\ ~Again(Passes(f, files), files)
  <1>1. PICK n \in Nat : n = Len(f[1])
    BY DEF Good
  <1>2. PICK g : PassedBy(f, files, n, g)
    BY <1>1, PassesIs
  <1>3. g[0] = f /\ \A i \in 1..n : g[i] = PassStep(g[i - 1], files)
    BY <1>2 DEF PassedBy
  <1>4. Passes(f, files) = g[n]
    BY <1>2 DEF PassedBy
  <1>5. PICK T : T = {i \in 0..n : Passing(S, f, files, i, g[i])}
    OBVIOUS
  <1>6. 0 \in T
    <2>1. Passing(S, f, files, 0, f)
      BY <1>1 DEF Passing
    <2> QED BY <1>3, <1>5, <2>1
  <1>7. ASSUME NEW i \in 0..(n - 1), i \in T PROVE i + 1 \in T
    <2>1. Passing(S, f, files, i, g[i]) /\ i \in Nat
      BY <1>5, <1>7
    <2>2. i + 1 \in 1..n /\ i + 1 \in 0..n /\ (i + 1) - 1 = i
      OBVIOUS
    <2>3. g[i + 1] = PassStep(g[i], files)
      BY <1>3, <2>2
    <2>4. Passing(S, f, files, i + 1, PassStep(g[i], files))
      BY <2>1, PassingGoesOn
    <2> QED BY <1>5, <2>2, <2>3, <2>4
  <1>8. Passing(S, f, files, n, g[n])
    <2>1. \A i \in 0..n : i \in T
      BY <1>6, <1>7, CountingUp
    <2>2. n \in 0..n
      OBVIOUS
    <2> QED BY <1>5, <2>1, <2>2
  <1>9. PICK q : q = g[n]
    OBVIOUS
  <1>10. Good(S, q) /\ Balanced(q) /\ In(q) = In(f) /\ (Len(f[1]) > 0 => Len(q[1]) > 0)
    BY <1>8, <1>9 DEF Passing
  <1>11. PICK l \in Nat, k \in Nat : l = Len(q[1]) /\ k = Len(q[2])
    <2>1. q[1] \in Seq(Seq(S)) /\ q[2] \in Seq(Seq(S))
      BY <1>10 DEF Good
    <2> QED BY <2>1
  <1>12. l = k \/ l = k + 1
    BY <1>10, <1>11 DEF Balanced
  <1>13. Again(q, files) => l <= n - n
    BY <1>1, <1>8, <1>9, <1>11 DEF Passing
  <1>14. Again(q, files) => l > 0
    BY <1>11, <1>12 DEF Again
  <1>15. ~Again(q, files)
    BY <1>13, <1>14
  <1> QED BY <1>4, <1>9, <1>10, <1>15

-----------------------------------------------------------------------------
(* The invariant of the queues, the files and the last two blocks.                       *)

Pair(q) == q = <<q[1], q[2]>>

\* The last two blocks.
HeadsGood(S, h) ==
  /\ Pair(h) /\ h[1] \in Seq(S) /\ h[2] \in Seq(S) /\ Sorted(h[1]) /\ Sorted(h[2]) /\ Disjoint(h[1], h[2])

\* The files f take turns, d next.
Turn(d, f) == \/ d = 1 /\ Len(f[1]) = Len(f[2])
              \/ d = 2 /\ Len(f[1]) = Len(f[2]) + 1

Numbers(K, u) == K \subseteq Item /\ Unlike(K) /\ u \in Nat /\ \A r \in K : r.unique < u

\* The records K are in the queues q, the files f (d is next) and the last two blocks h.
DataOK(K, q, f, d, h, r, u) ==
  /\ Numbers(K, u) /\ K = In(q) \cup In(f) \cup RecordsIn(h)
  /\ Pair(q) /\ Good(K, q) /\ Balanced(q)
  /\ Pair(f) /\ Good(K, f) /\ In(q) \cap In(f) = {}
  /\ HeadsGood(K, h)
  /\ r \in BOOLEAN /\ d \in {1, 2}
  /\ IF r THEN q = NoBlocks /\ f = NoBlocks ELSE h = NoBlocks /\ Turn(d, f)

DataInv == DataOK(Kept, queue, file, dest, heads, retrieving, unique)

LEMMA NothingIn ==
  /\ NoBlocks[1] = <<>> /\ NoBlocks[2] = <<>> /\ Pair(NoBlocks) /\ In(NoBlocks) = {} /\ RecordsIn(NoBlocks) = {}
  /\ Balanced(NoBlocks) /\ \A S : Good(S, NoBlocks) /\ HeadsGood(S, NoBlocks)
  <1>1. NoBlocks[1] = <<>> /\ NoBlocks[2] = <<>> /\ DOMAIN NoBlocks = {1, 2} /\ Pair(NoBlocks)
    BY DEF NoBlocks, Pair
  <1>2. In(NoBlocks) = {}
    BY <1>1 DEF In, RecordsIn
  <1>3. RecordsIn(NoBlocks) = {}
    BY <1>1, NoRecords DEF RecordsIn
  <1>4. Balanced(NoBlocks)
    BY <1>1 DEF Balanced
  <1>5. ASSUME NEW S PROVE Good(S, NoBlocks)
    <2>1. \A x \in {1, 2} : NoBlocks[x] = <<>>
      BY <1>1
    <2>2. <<>> \in Seq(Seq(S)) /\ Len(<<>>) = 0 /\ 1..0 = {}
      OBVIOUS
    <2> QED BY <2>1, <2>2 DEF Good
  <1>6. ASSUME NEW S PROVE HeadsGood(S, NoBlocks)
    BY <1>1, NoRecords DEF HeadsGood
  <1> QED BY <1>1, <1>2, <1>3, <1>4, <1>5, <1>6

LEMMA HeadsHold ==
  ASSUME NEW h, Pair(h)
  PROVE  RecordsIn(h) = RecordsOf(h[1]) \cup RecordsOf(h[2])
  <1>1. DOMAIN h = {1, 2}
    BY DEF Pair
  <1> QED BY <1>1 DEF RecordsIn

LEMMA KeptIs == Kept = In(queue) \cup In(file) \cup RecordsIn(heads)
  BY DEF Kept, In

\* What cob_sort_queues makes of the records in memory.
LEMMA SortQueuesIs ==
  ASSUME DataInv
  PROVE  SortQueues \in Seq(Kept) /\ Sorted(SortQueues) /\ RecordsOf(SortQueues) = In(queue)
  <1>1. PICK S : S = Kept
    OBVIOUS
  <1>2. S \subseteq Item /\ Unlike(S) /\ Good(S, queue) /\ Balanced(queue)
    BY <1>1 DEF DataInv, DataOK, Numbers
  <1>3. PICK p : p = Passes(queue, FALSE)
    OBVIOUS
  <1>4. Good(S, p) /\ In(p) = In(queue) /\ Balanced(p) /\ ~Again(p, FALSE)
    BY <1>2, <1>3, PassesGood
  <1>5. p[1] \in Seq(Seq(S)) /\ p[2] \in Seq(Seq(S)) /\ \A i \in 1..Len(p[1]) : Sorted(p[1][i])
    BY <1>4 DEF Good
  <1>0. PICK X : X = Seq(S)
    OBVIOUS
  <1>6. PICK l \in Nat, k \in Nat : l = Len(p[1]) /\ k = Len(p[2])
    BY <1>5
  <1>7. k = 0 /\ l \in {0, 1}
    <2>1. ~(Len(p[2]) > 0) /\ (Len(p[1]) = Len(p[2]) \/ Len(p[1]) = Len(p[2]) + 1)
      BY <1>4 DEF Again, Balanced
    <2>2. ~(k > 0) /\ (l = k \/ l = k + 1)
      BY <1>6, <2>1
    <2> QED BY <2>2
  <1>8. CASE l = 0
    <2>1. p[1] = <<>>
      <3>1. p[1] \in Seq(X) /\ Len(p[1]) = 0
        BY <1>0, <1>5, <1>6, <1>8
      <3> QED BY <3>1
    <2>2. SortQueues = <<>>
      BY <1>3, <2>1 DEF SortQueues
    <2>3. In(p) = {}
      <3>1. \A r : r \in In(p) <=> \E x \in {1, 2} : \E i \in 1..Len(p[x]) : r \in RecordsOf(p[x][i])
        BY <1>4, InIs
      <3>2. Len(p[1]) = 0 /\ Len(p[2]) = 0
        BY <1>6, <1>7, <1>8
      <3>3. 1..Len(p[1]) = {} /\ 1..Len(p[2]) = {}
        BY <3>2
      <3> QED BY <3>1, <3>3
    <2> QED BY <1>4, <2>2, <2>3, NoRecords
  <1>9. CASE l = 1
    <2>1. p[1] # <<>>
      <3>1. Len(p[1]) = 1 /\ Len(<<>>) = 0
        BY <1>6, <1>9
      <3> QED BY <3>1
    <2>2. SortQueues = p[1][1]
      BY <1>3, <2>1 DEF SortQueues
    <2>3. p[1][1] \in Seq(S) /\ Sorted(p[1][1])
      <3>1. p[1] \in Seq(X) /\ Len(p[1]) = 1
        BY <1>0, <1>5, <1>6, <1>9
      <3>2. 1 \in 1..Len(p[1]) /\ p[1][1] \in X
        BY <3>1
      <3> QED BY <1>0, <1>5, <3>2
    <2>4. \A r : r \in In(p) <=> r \in RecordsOf(p[1][1])
      <3>1. \A r : r \in In(p) <=> \E x \in {1, 2} : \E i \in 1..Len(p[x]) : r \in RecordsOf(p[x][i])
        BY <1>4, InIs
      <3>2. Len(p[1]) = 1 /\ Len(p[2]) = 0
        BY <1>6, <1>7, <1>9
      <3>3. 1..Len(p[1]) = {1} /\ 1..Len(p[2]) = {}
        BY <3>2
      <3> QED BY <3>1, <3>3
    <2> QED BY <1>1, <1>4, <2>2, <2>3, <2>4
  <1> QED BY <1>7, <1>8, <1>9

\* A queue with one more block.
LEMMA MoreBlocks ==
  ASSUME NEW S, NEW q \in Seq(Seq(S)), NEW b \in Seq(S)
  PROVE  /\ Append(q, b) \in Seq(Seq(S)) /\ Len(Append(q, b)) = Len(q) + 1
         /\ Append(q, b)[Len(q) + 1] = b /\ \A i \in 1..Len(q) : Append(q, b)[i] = q[i]
  <1>1. PICK X : X = Seq(S)
    OBVIOUS
  <1>2. q \in Seq(X) /\ b \in X
    BY <1>1
  <1> QED BY <1>1, <1>2, AppendProperties

\* Queue x of g is that of f with block b at place n; at leads back to f.
Added(f, g, x, b, n, at) ==
  /\ \A y \in {1, 2} : y # x => g[y] = f[y]
  /\ n \in 1..Len(g[x]) /\ g[x][n] = b
  /\ \A i \in 1..Len(g[x]) : i # n => at[i] \in 1..Len(f[x]) /\ g[x][i] = f[x][at[i]]
  /\ \A i, j \in 1..Len(g[x]) : i # n /\ j # n /\ at[i] = at[j] => i = j
  /\ \A j \in 1..Len(f[x]) : \E i \in 1..Len(g[x]) : i # n /\ at[i] = j

LEMMA AddedGood ==
  ASSUME NEW S, NEW f, Good(S, f), NEW b \in Seq(S), Sorted(b), RecordsOf(b) \cap In(f) = {},
         NEW x \in {1, 2}, NEW g, g[x] \in Seq(Seq(S)), NEW n, NEW at, Added(f, g, x, b, n, at)
  PROVE  Good(S, g) /\ In(g) = In(f) \cup RecordsOf(b)
  <1>1. \A y \in {1, 2} : y # x => g[y] = f[y]
    BY DEF Added
  <1>2. n \in 1..Len(g[x]) /\ g[x][n] = b
    BY DEF Added
  <1>3. \A i \in 1..Len(g[x]) : i # n => at[i] \in 1..Len(f[x]) /\ g[x][i] = f[x][at[i]]
    BY DEF Added
  <1>4. \A i, j \in 1..Len(g[x]) : i # n /\ j # n /\ at[i] = at[j] => i = j
    BY DEF Added
  <1>5. \A j \in 1..Len(f[x]) : \E i \in 1..Len(g[x]) : i # n /\ at[i] = j
    BY DEF Added
  <1>6. \A y \in {1, 2} : f[y] \in Seq(Seq(S)) /\ \A i \in 1..Len(f[y]) : Sorted(f[y][i])
    BY DEF Good
  <1>7. \A y \in {1, 2} : \A i \in 1..Len(f[y]) : Disjoint(b, f[y][i]) /\ Disjoint(f[y][i], b)
    <2>1. \A y \in {1, 2} : \A i \in 1..Len(f[y]) : RecordsOf(f[y][i]) \subseteq In(f)
      BY InIs
    <2> QED BY <2>1 DEF Disjoint
  <1>8. \A y, z \in {1, 2} : \A i \in 1..Len(f[y]), j \in 1..Len(f[z]) :
          (y = z /\ i = j) \/ Disjoint(f[y][i], f[z][j])
    BY DEF Good
  <1>9. \A y \in {1, 2} : g[y] \in Seq(Seq(S))
    BY <1>1, <1>6
  <1>10. ASSUME NEW y \in {1, 2}, NEW i \in 1..Len(g[y]) PROVE Sorted(g[y][i])
    <2>1. CASE y # x
      BY <1>1, <1>6, <2>1
    <2>2. CASE y = x /\ i = n
      BY <1>2, <2>2
    <2>3. CASE y = x /\ i # n
      BY <1>3, <1>6, <2>3
    <2> QED BY <2>1, <2>2, <2>3
  <1>11. ASSUME NEW y \in {1, 2}, NEW z \in {1, 2}, NEW i \in 1..Len(g[y]), NEW j \in 1..Len(g[z])
         PROVE  (y = z /\ i = j) \/ Disjoint(g[y][i], g[z][j])
    <2>1. CASE y # x /\ z # x
      BY <1>1, <1>8, <2>1
    <2>2. CASE y = x /\ z # x
      <3>1. g[z] = f[z] /\ j \in 1..Len(f[z])
        BY <1>1, <2>2
      <3>2. CASE i = n
        BY <1>2, <1>7, <2>2, <3>1, <3>2
      <3>3. CASE i # n
        BY <1>3, <1>8, <2>2, <3>1, <3>3, ZenonT(60)
      <3> QED BY <3>2, <3>3
    <2>3. CASE y # x /\ z = x
      <3>1. g[y] = f[y] /\ i \in 1..Len(f[y])
        BY <1>1, <2>3
      <3>2. CASE j = n
        BY <1>2, <1>7, <2>3, <3>1, <3>2
      <3>3. CASE j # n
        <4>1. at[j] \in 1..Len(f[x]) /\ g[x][j] = f[x][at[j]]
          BY <1>3, <2>3, <3>3
        <4>2. Disjoint(f[y][i], f[x][at[j]])
          BY <1>8, <2>3, <3>1, <4>1
        <4> QED BY <2>3, <3>1, <4>1, <4>2
      <3> QED BY <3>2, <3>3
    <2>4. CASE y = x /\ z = x
      <3>1. CASE i = n /\ j = n
        BY <2>4, <3>1
      <3>2. CASE i = n /\ j # n
        BY <1>2, <1>3, <1>7, <2>4, <3>2
      <3>3. CASE i # n /\ j = n
        BY <1>2, <1>3, <1>7, <2>4, <3>3
      <3>4. CASE i # n /\ j # n
        <4>1. at[i] \in 1..Len(f[x]) /\ g[x][i] = f[x][at[i]]
          BY <1>3, <2>4, <3>4
        <4>2. at[j] \in 1..Len(f[x]) /\ g[x][j] = f[x][at[j]]
          BY <1>3, <2>4, <3>4
        <4>3. at[i] = at[j] => i = j
          BY <1>4, <2>4, <3>4
        <4>4. at[i] = at[j] \/ Disjoint(f[x][at[i]], f[x][at[j]])
          BY <1>8, <4>1, <4>2
        <4> QED BY <2>4, <4>1, <4>2, <4>3, <4>4
      <3> QED BY <3>1, <3>2, <3>3, <3>4
    <2> QED BY <2>1, <2>2, <2>3, <2>4
  <1>12. Good(S, g)
    BY <1>9, <1>10, <1>11 DEF Good
  <1>13. ASSUME NEW r, r \in In(g) PROVE r \in In(f) \cup RecordsOf(b)
    <2>1. PICK y \in {1, 2} : \E i \in 1..Len(g[y]) : r \in RecordsOf(g[y][i])
      BY <1>12, <1>13, InIs
    <2>2. PICK i \in 1..Len(g[y]) : r \in RecordsOf(g[y][i])
      BY <2>1
    <2>3. CASE y # x
      BY <1>1, <2>2, <2>3, InIs
    <2>4. CASE y = x /\ i = n
      BY <1>2, <2>2, <2>4
    <2>5. CASE y = x /\ i # n
      BY <1>3, <2>2, <2>5, InIs
    <2> QED BY <2>3, <2>4, <2>5
  <1>14. ASSUME NEW r, r \in In(f) PROVE r \in In(g)
    <2>1. PICK y \in {1, 2} : \E i \in 1..Len(f[y]) : r \in RecordsOf(f[y][i])
      BY <1>14, InIs
    <2>2. PICK i \in 1..Len(f[y]) : r \in RecordsOf(f[y][i])
      BY <2>1
    <2>3. CASE y # x
      BY <1>1, <1>12, <2>2, <2>3, InIs
    <2>4. CASE y = x
      <3>1. PICK j \in 1..Len(g[x]) : j # n /\ at[j] = i
        BY <1>5, <2>4
      <3>2. g[x][j] = f[x][i]
        BY <1>3, <3>1
      <3> QED BY <1>12, <2>2, <2>4, <3>2, InIs
    <2> QED BY <2>3, <2>4
  <1>15. RecordsOf(b) \subseteq In(g)
    BY <1>2, <1>12, InIs
  <1> QED BY <1>12, <1>13, <1>14, <1>15

LEMMA ElementsIn ==
  ASSUME NEW X, NEW Y, NEW s \in Seq(X), \A i \in 1..Len(s) : s[i] \in Y
  PROVE  s \in Seq(Y)
  OBVIOUS

\* The records of the blocks are what matters.
LEMMA GoodFor ==
  ASSUME NEW S, NEW T, NEW f, Good(S, f), In(f) \subseteq T
  PROVE  Good(T, f)
  <1>1. ASSUME NEW x \in {1, 2} PROVE f[x] \in Seq(Seq(T))
    <2>1. f[x] \in Seq(Seq(S))
      BY DEF Good
    <2>2. ASSUME NEW i \in 1..Len(f[x]) PROVE f[x][i] \in Seq(T)
      <3>1. RecordsOf(f[x][i]) \subseteq T
        BY InIs
      <3>2. f[x][i] \in Seq(S)
        <4>1. PICK X : X = Seq(S)
          OBVIOUS
        <4>2. f[x] \in Seq(X)
          BY <2>1, <4>1
        <4> QED BY <4>1, <4>2
      <3>3. \A j \in 1..Len(f[x][i]) : f[x][i][j] \in T
        BY <3>1, <3>2 DEF RecordsOf
      <3> QED BY <3>2, <3>3, ElementsIn
    <2>3. PICK X, Y : X = Seq(S) /\ Y = Seq(T)
      OBVIOUS
    <2>4. f[x] \in Seq(X) /\ \A i \in 1..Len(f[x]) : f[x][i] \in Y
      BY <2>1, <2>2, <2>3
    <2> QED BY <2>3, <2>4, ElementsIn
  <1>2. /\ \A x \in {1, 2} : \A i \in 1..Len(f[x]) : Sorted(f[x][i])
        /\ \A x, y \in {1, 2} : \A i \in 1..Len(f[x]), j \in 1..Len(f[y]) :
             (x = y /\ i = j) \/ Disjoint(f[x][i], f[y][j])
    BY DEF Good
  <1> QED BY <1>1, <1>2 DEF Good

LEMMA FrontBlock ==
  ASSUME NEW S, NEW q \in Seq(Seq(S)), NEW b \in Seq(S)
  PROVE  /\ <<b>> \o q \in Seq(Seq(S)) /\ Len(<<b>> \o q) = Len(q) + 1
         /\ (<<b>> \o q)[1] = b /\ \A i \in 2..(Len(q) + 1) : (<<b>> \o q)[i] = q[i - 1]
  <1>1. PICK X : X = Seq(S)
    OBVIOUS
  <1>2. q \in Seq(X) /\ b \in X
    BY <1>1
  <1>3. <<b>> \in Seq(X) /\ Len(<<b>>) = 1 /\ <<b>>[1] = b
    BY <1>2
  <1>4. <<b>> \o q \in Seq(X) /\ Len(<<b>> \o q) = Len(q) + 1
    BY <1>2, <1>3
  <1>5. \A i \in 1..(Len(q) + 1) : (<<b>> \o q)[i] = IF i <= 1 THEN <<b>>[i] ELSE q[i - 1]
    BY <1>2, <1>3
  <1>6. Len(q) \in Nat
    BY <1>2
  <1> QED BY <1>1, <1>3, <1>4, <1>5, <1>6

\* g is f with e for x.
With(f, g, x, e) == Pair(g) /\ g[x] = e /\ \A y \in {1, 2} : y # x => g[y] = f[y]

LEMMA PairWith ==
  ASSUME NEW f, Pair(f), NEW x \in {1, 2}, NEW e, NEW g, g = [f EXCEPT ![x] = e]
  PROVE  With(f, g, x, e)
  <1>1. PICK a, b : f = <<a, b>>
    BY DEF Pair
  <1>2. CASE x = 1
    <2>1. g = <<e, b>>
      BY <1>1, <1>2
    <2> QED BY <1>1, <1>2, <2>1 DEF Pair, With
  <1>3. CASE x = 2
    <2>1. g = <<a, e>>
      BY <1>1, <1>3
    <2> QED BY <1>1, <1>3, <2>1 DEF Pair, With
  <1> QED BY <1>2, <1>3

\* A block at the end of a file.
LEMMA BlockWritten ==
  ASSUME NEW S, NEW f, Pair(f), Good(S, f), NEW b \in Seq(S), Sorted(b), RecordsOf(b) \cap In(f) = {},
         NEW x \in {1, 2}, NEW g, With(f, g, x, Append(f[x], b))
  PROVE  /\ Pair(g) /\ Good(S, g) /\ In(g) = In(f) \cup RecordsOf(b)
         /\ Len(g[x]) = Len(f[x]) + 1 /\ \A y \in {1, 2} : y # x => g[y] = f[y]
  <1>1. Pair(g) /\ g[x] = Append(f[x], b) /\ \A y \in {1, 2} : y # x => g[y] = f[y]
    BY DEF With
  <1>2. f[x] \in Seq(Seq(S))
    BY DEF Good
  <1>3. /\ g[x] \in Seq(Seq(S)) /\ Len(g[x]) = Len(f[x]) + 1
        /\ g[x][Len(f[x]) + 1] = b /\ \A i \in 1..Len(f[x]) : g[x][i] = f[x][i]
    BY <1>1, <1>2, MoreBlocks
  <1>4. PICK n \in Nat : n = Len(f[x])
    BY <1>2
  <1>5. PICK at : at = [i \in 1..(n + 1) |-> i]
    OBVIOUS
  <1>6. \A i \in 1..(n + 1) : at[i] = i
    BY <1>5
  <1>7. Added(f, g, x, b, n + 1, at)
    <2>1. n + 1 \in 1..Len(g[x]) /\ g[x][n + 1] = b
      BY <1>3, <1>4
    <2>2. \A i \in 1..Len(g[x]) : i # n + 1 => at[i] \in 1..Len(f[x]) /\ g[x][i] = f[x][at[i]]
      <3>1. Len(f[x]) = n /\ Len(g[x]) = n + 1 /\ \A i \in 1..n : g[x][i] = f[x][i]
        BY <1>3, <1>4
      <3>2. \A i \in 1..(n + 1) : i # n + 1 => i \in 1..n
        OBVIOUS
      <3> QED BY <1>6, <3>1, <3>2
    <2>3. \A i, j \in 1..Len(g[x]) : i # n + 1 /\ j # n + 1 /\ at[i] = at[j] => i = j
      <3>1. \A i \in 1..Len(g[x]) : at[i] = i
        BY <1>3, <1>4, <1>6
      <3> QED BY <3>1
    <2>4. \A j \in 1..Len(f[x]) : \E i \in 1..Len(g[x]) : i # n + 1 /\ at[i] = j
      <3>0. Len(f[x]) = n /\ Len(g[x]) = n + 1
        BY <1>3, <1>4
      <3>1. \A j \in 1..n : j \in 1..(n + 1) /\ j # n + 1 /\ at[j] = j
        BY <1>6
      <3> QED BY <3>0, <3>1
    <2> QED BY <1>1, <2>1, <2>2, <2>3, <2>4 DEF Added
  <1>8. Good(S, g) /\ In(g) = In(f) \cup RecordsOf(b)
    <2>1. PICK m : m = n + 1
      OBVIOUS
    <2>2. Added(f, g, x, b, m, at)
      BY <1>7, <2>1
    <2>3. g[x] \in Seq(Seq(S))
      BY <1>3
    <2> QED BY <2>2, <2>3, AddedGood
  <1> QED BY <1>1, <1>3, <1>8

\* A block at the front of a queue.
LEMMA BlockQueued ==
  ASSUME NEW S, NEW f, Pair(f), Good(S, f), NEW b \in Seq(S), Sorted(b), RecordsOf(b) \cap In(f) = {},
         NEW x \in {1, 2}, NEW g, With(f, g, x, <<b>> \o f[x])
  PROVE  /\ Pair(g) /\ Good(S, g) /\ In(g) = In(f) \cup RecordsOf(b)
         /\ Len(g[x]) = Len(f[x]) + 1 /\ \A y \in {1, 2} : y # x => g[y] = f[y]
  <1>1. Pair(g) /\ g[x] = <<b>> \o f[x] /\ \A y \in {1, 2} : y # x => g[y] = f[y]
    BY DEF With
  <1>2. f[x] \in Seq(Seq(S))
    BY DEF Good
  <1>3. /\ g[x] \in Seq(Seq(S)) /\ Len(g[x]) = Len(f[x]) + 1
        /\ g[x][1] = b /\ \A i \in 2..(Len(f[x]) + 1) : g[x][i] = f[x][i - 1]
    BY <1>1, <1>2, FrontBlock
  <1>4. PICK n \in Nat : n = Len(f[x])
    BY <1>2
  <1>5. PICK at : at = [i \in 1..(n + 1) |-> i - 1]
    OBVIOUS
  <1>6. \A i \in 1..(n + 1) : at[i] = i - 1
    BY <1>5
  <1>7. Added(f, g, x, b, 1, at)
    <2>1. 1 \in 1..Len(g[x]) /\ g[x][1] = b
      BY <1>3, <1>4
    <2>2. \A i \in 1..Len(g[x]) : i # 1 => at[i] \in 1..Len(f[x]) /\ g[x][i] = f[x][at[i]]
      BY <1>3, <1>4, <1>6, SMTT(40)
    <2>3. \A i, j \in 1..Len(g[x]) : i # 1 /\ j # 1 /\ at[i] = at[j] => i = j
      <3>1. \A i \in 1..Len(g[x]) : i \in Int /\ at[i] = i - 1
        BY <1>3, <1>4, <1>6
      <3>2. \A i, j \in Int : i - 1 = j - 1 => i = j
        OBVIOUS
      <3> QED BY <3>1, <3>2
    <2>4. \A j \in 1..Len(f[x]) : \E i \in 1..Len(g[x]) : i # 1 /\ at[i] = j
      <3>1. Len(f[x]) = n /\ Len(g[x]) = n + 1
        BY <1>3, <1>4
      <3>2. \A j \in 1..n : j + 1 \in 1..(n + 1) /\ j + 1 # 1
        OBVIOUS
      <3>3. \A j \in 1..n : at[j + 1] = j
        BY <1>6, <3>2
      <3> QED BY <3>1, <3>2, <3>3
    <2> QED BY <1>1, <2>1, <2>2, <2>3, <2>4 DEF Added
  <1>8. Good(S, g) /\ In(g) = In(f) \cup RecordsOf(b)
    <2>1. g[x] \in Seq(Seq(S))
      BY <1>3
    <2> QED BY <1>7, <2>1, AddedGood
  <1> QED BY <1>1, <1>3, <1>8

LEMMA OneRecord ==
  ASSUME NEW S, NEW r \in S
  PROVE  <<r>> \in Seq(S) /\ Sorted(<<r>>) /\ RecordsOf(<<r>>) = {r}
  <1>1. <<r>> \in Seq(S) /\ Len(<<r>>) = 1 /\ <<r>>[1] = r /\ DOMAIN <<r>> = {1}
    OBVIOUS
  <1>2. Sorted(<<r>>)
    BY <1>1 DEF Sorted
  <1>3. RecordsOf(<<r>>) = {r}
    BY <1>1 DEF RecordsOf
  <1> QED BY <1>1, <1>2, <1>3

\* cob_write_block keeps the records and the turns.
LEMMA WriteBlockIs ==
  ASSUME DataInv, ~retrieving
  PROVE  /\ Pair(WriteBlock) /\ Good(Kept, WriteBlock) /\ In(WriteBlock) = Kept
         /\ Turn(3 - dest, WriteBlock)
         /\ Balanced(WriteBlock) /\ Len(WriteBlock[1]) > 0
  <1>1. PICK b, d, K, g : b = SortQueues /\ d = dest /\ K = Kept /\ g = WriteBlock
    OBVIOUS
  <1>2. b \in Seq(K) /\ Sorted(b) /\ RecordsOf(b) = In(queue)
    BY <1>1, SortQueuesIs
  <1>3. Pair(file) /\ Good(K, file) /\ In(queue) \cap In(file) = {} /\ d \in {1, 2} /\ Turn(d, file)
    BY <1>1 DEF DataInv, DataOK
  <1>4. K = In(queue) \cup In(file)
    <2>1. K = In(queue) \cup In(file) \cup RecordsIn(heads) /\ heads = NoBlocks
      BY <1>1 DEF DataInv, DataOK
    <2> QED BY <2>1, NothingIn
  <1>5. With(file, g, d, Append(file[d], b))
    <2>1. PICK e : e = Append(file[d], b)
      OBVIOUS
    <2>2. g = [file EXCEPT ![d] = Append(file[d], b)]
      BY <1>1 DEF WriteBlock
    <2>3. g = [file EXCEPT ![d] = e]
      BY <2>1, <2>2
    <2>4. With(file, g, d, e)
      BY <1>3, <2>3, PairWith
    <2> QED BY <2>1, <2>4
  <1>6. /\ Pair(g) /\ Good(K, g) /\ In(g) = In(file) \cup RecordsOf(b)
        /\ Len(g[d]) = Len(file[d]) + 1 /\ \A y \in {1, 2} : y # d => g[y] = file[y]
    BY <1>2, <1>3, <1>5, BlockWritten
  <1>7. PICK m \in Nat, n \in Nat : m = Len(file[1]) /\ n = Len(file[2])
    <2>1. file[1] \in Seq(Seq(K)) /\ file[2] \in Seq(Seq(K))
      BY <1>3 DEF Good
    <2>2. Len(file[1]) \in Nat /\ Len(file[2]) \in Nat
      BY <2>1
    <2> QED BY <2>2
  <1>8. CASE d = 1
    <2>1. m = n /\ Len(g[1]) = m + 1 /\ Len(g[2]) = n /\ 3 - d = 2
      BY <1>3, <1>6, <1>7, <1>8 DEF Turn
    <2> QED BY <1>1, <1>2, <1>4, <1>6, <2>1 DEF Turn, Balanced
  <1>9. CASE d = 2
    <2>1. m = n + 1 /\ Len(g[1]) = m /\ Len(g[2]) = n + 1 /\ 3 - d = 1
      BY <1>3, <1>6, <1>7, <1>9 DEF Turn
    <2> QED BY <1>1, <1>2, <1>4, <1>6, <2>1 DEF Turn, Balanced
  <1> QED BY <1>3, <1>8, <1>9

\* The item that cob_file_sort_submit adds.
Released(k) == [key |-> k, unique |-> unique]

LEMMA ReleasedIs ==
  ASSUME NEW k \in Keys, Numbers(Kept, unique)
  PROVE  /\ Released(k) \in Item /\ Released(k).unique = unique /\ Released(k) \notin Kept
         /\ Numbers(Kept \cup {Released(k)}, unique + 1)
  <1>1. Released(k) \in Item /\ Released(k).unique = unique
    BY DEF Numbers, Released, Item
  <1>2. PICK r, u : r = Released(k) /\ u = unique
    OBVIOUS
  <1>3. /\ Kept \subseteq Item /\ u \in Nat /\ \A s \in Kept : s.unique < u
        /\ \A s, t \in Kept : s.unique = t.unique => s = t
    BY <1>2 DEF Numbers, Unlike
  <1>4. r \in Item /\ r.unique = u
    BY <1>1, <1>2
  <1>5. \A s \in Kept : s.unique \in Nat
    BY <1>3 DEF Item
  <1>6. r \notin Kept
    BY <1>3, <1>4, <1>5
  <1>7. \A s \in Kept : s.unique < u + 1 /\ s.unique # r.unique
    BY <1>3, <1>4, <1>5
  <1>8. u + 1 \in Nat /\ u < u + 1
    BY <1>3
  <1>9. Unlike(Kept \cup {r})
    BY <1>3, <1>7 DEF Unlike
  <1>10. Numbers(Kept \cup {r}, u + 1)
    BY <1>3, <1>4, <1>7, <1>8, <1>9 DEF Numbers
  <1> QED BY <1>1, <1>2, <1>6, <1>10

\* The queues when the item is added to them.
SubmitTo == IF SwitchToFile THEN NoBlocks ELSE queue

Shorter(q) == IF Len(q[1]) <= Len(q[2]) THEN 1 ELSE 2

\* A queue grows in the turn of the queues.
LEMMA StillBalanced ==
  ASSUME NEW f, NEW g, Len(f[1]) \in Nat, Len(f[2]) \in Nat, Balanced(f),
         Len(g[Shorter(f)]) = Len(f[Shorter(f)]) + 1, \A y \in {1, 2} : y # Shorter(f) => g[y] = f[y]
  PROVE  Shorter(f) \in {1, 2} /\ Balanced(g) /\ Len(g[1]) + Len(g[2]) = Len(f[1]) + Len(f[2]) + 1
  <1>1. PICK m \in Nat, n \in Nat : m = Len(f[1]) /\ n = Len(f[2])
    OBVIOUS
  <1>2. CASE m <= n
    <2>1. Shorter(f) = 1 /\ m = n
      BY <1>1, <1>2 DEF Shorter, Balanced
    <2>2. Len(g[1]) = m + 1 /\ Len(g[2]) = n
      BY <1>1, <2>1
    <2> QED BY <1>1, <2>1, <2>2 DEF Balanced
  <1>3. CASE ~(m <= n)
    <2>1. Shorter(f) = 2 /\ m = n + 1
      BY <1>1, <1>3 DEF Shorter, Balanced
    <2>2. Len(g[1]) = m /\ Len(g[2]) = n + 1
      BY <1>1, <2>1
    <2> QED BY <1>1, <2>1, <2>2 DEF Balanced
  <1> QED BY <1>2, <1>3

\* The queues and files that the item joins hold Kept.
LEMMA SubmitToIs ==
  ASSUME DataInv, ~retrieving, NEW F, F = (IF SwitchToFile THEN WriteBlock ELSE file)
  PROVE  /\ Pair(SubmitTo) /\ Good(Kept, SubmitTo) /\ Balanced(SubmitTo)
         /\ Pair(F) /\ Good(Kept, F) /\ In(SubmitTo) \cap In(F) = {} /\ Kept = In(SubmitTo) \cup In(F)
         /\ Turn(IF SwitchToFile THEN 3 - dest ELSE dest, F)
  <1>1. /\ Pair(queue) /\ Good(Kept, queue) /\ Balanced(queue)
        /\ Pair(file) /\ Good(Kept, file) /\ In(queue) \cap In(file) = {} /\ Turn(dest, file)
        /\ Kept = In(queue) \cup In(file) \cup RecordsIn(heads) /\ heads = NoBlocks
    BY DEF DataInv, DataOK
  <1>2. Kept = In(queue) \cup In(file)
    BY <1>1, NothingIn
  <1>3. CASE SwitchToFile
    <2>1. SubmitTo = NoBlocks /\ F = WriteBlock
      BY <1>3 DEF SubmitTo
    <2>2. Pair(NoBlocks) /\ Good(Kept, NoBlocks) /\ Balanced(NoBlocks) /\ In(NoBlocks) = {}
      BY NothingIn
    <2>3. Pair(F) /\ Good(Kept, F) /\ In(F) = Kept /\ Turn(3 - dest, F)
      BY <2>1, WriteBlockIs
    <2> QED BY <1>3, <2>1, <2>2, <2>3
  <1>4. CASE ~SwitchToFile
    BY <1>1, <1>2, <1>4 DEF SubmitTo
  <1> QED BY <1>3, <1>4

\* What cob_file_sort_submit leaves.
LEMMA SubmitIs ==
  ASSUME NEW k \in Keys, Submit(k)
  PROVE  /\ unique' = unique + 1 /\ heads' = heads /\ retrieving' = retrieving /\ unique < MaxRecords
         /\ file' = (IF SwitchToFile THEN WriteBlock ELSE file)
         /\ dest' = (IF SwitchToFile THEN 3 - dest ELSE dest)
         /\ allocated' = (IF SwitchToFile THEN allocated ELSE allocated + 1)
         /\ queue' = [SubmitTo EXCEPT ![Shorter(SubmitTo)] = << <<Released(k)>> >> \o SubmitTo[Shorter(SubmitTo)]]
  <1>1. /\ unique' = unique + 1 /\ heads' = heads /\ retrieving' = retrieving /\ unique < MaxRecords
        /\ file' = (IF SwitchToFile THEN WriteBlock ELSE file)
        /\ dest' = (IF SwitchToFile THEN 3 - dest ELSE dest)
        /\ allocated' = (IF SwitchToFile THEN allocated ELSE allocated + 1)
    BY DEF Submit
  <1>2. PICK q : q = SubmitTo
    OBVIOUS
  <1>3. PICK z : z = Shorter(q)
    OBVIOUS
  <1>4. queue' = [q EXCEPT ![z] = << <<Released(k)>> >> \o q[z]]
    BY <1>2, <1>3 DEF Submit, SubmitTo, Shorter, Released
  <1> QED BY <1>1, <1>2, <1>3, <1>4

\* A step of RELEASE.
LEMMA SubmitKeeps ==
  ASSUME DataInv, ~retrieving, NEW k \in Keys, Submit(k)
  PROVE  /\ DataInv' /\ Kept' = Kept \cup {Released(k)}
         /\ Len(queue'[1]) + Len(queue'[2]) = Len(SubmitTo[1]) + Len(SubmitTo[2]) + 1
  <1>1. PICK q, F, r, K, d, D : /\ q = SubmitTo /\ F = file' /\ r = Released(k) /\ K = Kept \cup {r}
                                /\ d = (IF SwitchToFile THEN 3 - dest ELSE dest) /\ D = dest'
    OBVIOUS
  <1>2. F = (IF SwitchToFile THEN WriteBlock ELSE file) /\ D = d
    BY <1>1, SubmitIs
  <1>3. /\ Pair(q) /\ Good(Kept, q) /\ Balanced(q)
        /\ Pair(F) /\ Good(Kept, F) /\ In(q) \cap In(F) = {} /\ Kept = In(q) \cup In(F)
        /\ Turn(d, F)
    BY <1>1, <1>2, SubmitToIs
  <1>4. /\ r \in Item /\ r \notin Kept /\ Numbers(K, unique + 1)
    <2>1. Numbers(Kept, unique)
      BY DEF DataInv, DataOK
    <2> QED BY <1>1, <2>1, ReleasedIs
  <1>5. r \in K /\ Kept \subseteq K /\ r \notin In(q) /\ r \notin In(F)
    BY <1>1, <1>3, <1>4
  <1>6. Good(K, q) /\ Good(K, F)
    <2>1. In(q) \subseteq K /\ In(F) \subseteq K
      BY <1>3, <1>5
    <2> QED BY <1>3, <2>1, GoodFor
  <1>7. PICK z : z = Shorter(q)
    OBVIOUS
  <1>8. z \in {1, 2}
    BY <1>7 DEF Shorter
  <1>9. PICK Q : Q = queue'
    OBVIOUS
  <1>10. PICK b : b = <<r>>
    OBVIOUS
  <1>11. b \in Seq(K) /\ Sorted(b) /\ RecordsOf(b) = {r}
    BY <1>5, <1>10, OneRecord
  <1>12. With(q, Q, z, <<b>> \o q[z])
    <2>1. PICK e : e = <<b>> \o q[z]
      OBVIOUS
    <2>2. Q = [SubmitTo EXCEPT ![Shorter(SubmitTo)] = << <<Released(k)>> >> \o SubmitTo[Shorter(SubmitTo)]]
      BY <1>9, SubmitIs
    <2>3. Q = [q EXCEPT ![z] = e]
      BY <1>1, <1>7, <1>10, <2>1, <2>2
    <2>4. With(q, Q, z, e)
      BY <1>3, <1>8, <2>3, PairWith
    <2> QED BY <2>1, <2>4
  <1>13. /\ Pair(Q) /\ Good(K, Q) /\ In(Q) = In(q) \cup RecordsOf(b)
         /\ Len(Q[z]) = Len(q[z]) + 1 /\ \A y \in {1, 2} : y # z => Q[y] = q[y]
    <2>1. RecordsOf(b) \cap In(q) = {}
      BY <1>5, <1>11
    <2> QED BY <1>3, <1>6, <1>8, <1>11, <1>12, <2>1, BlockQueued
  <1>14. Balanced(Q) /\ Len(Q[1]) + Len(Q[2]) = Len(q[1]) + Len(q[2]) + 1
    <2>1. q[1] \in Seq(Seq(Kept)) /\ q[2] \in Seq(Seq(Kept))
      BY <1>3 DEF Good
    <2>2. Len(q[1]) \in Nat /\ Len(q[2]) \in Nat
      BY <2>1
    <2> QED BY <1>3, <1>7, <1>13, <2>2, StillBalanced
  <1>15. heads' = NoBlocks /\ ~retrieving' /\ retrieving' \in BOOLEAN /\ unique' = unique + 1
    BY SubmitIs DEF DataInv, DataOK
  <1>16. Kept' = K /\ K = In(Q) \cup In(F) \cup RecordsIn(heads')
    <2>1. Kept' = In(queue') \cup In(file') \cup RecordsIn(heads')
      BY DEF Kept, In
    <2>2. In(Q) \cup In(F) \cup {} = K
      BY <1>1, <1>3, <1>11, <1>13
    <2>3. RecordsIn(heads') = {}
      BY <1>15, NothingIn
    <2> QED BY <1>1, <1>9, <2>1, <2>2, <2>3
  <1>17. In(Q) \cap In(F) = {}
    BY <1>3, <1>5, <1>11, <1>13
  <1>18. D \in {1, 2}
    <2>1. dest \in {1, 2}
      BY DEF DataInv, DataOK
    <2> QED BY <1>1, <1>2, <2>1
  <1>19. HeadsGood(K, NoBlocks)
    BY NothingIn
  <1>20. DataOK(K, Q, F, D, NoBlocks, FALSE, unique + 1)
    <2>1. K = In(Q) \cup In(F) \cup RecordsIn(NoBlocks)
      BY <1>15, <1>16
    <2>2. Turn(D, F)
      BY <1>2, <1>3
    <2> QED BY <1>3, <1>4, <1>6, <1>13, <1>14, <1>17, <1>18, <1>19, <2>1, <2>2 DEF DataOK
  <1>21. DataInv'
    <2>1. retrieving' = FALSE
      BY <1>15
    <2> QED BY <1>1, <1>9, <1>15, <1>16, <1>20, <2>1 DEF DataInv
  <1> QED BY <1>1, <1>9, <1>14, <1>16, <1>21

LEMMA RecordsOfIs ==
  ASSUME NEW S, NEW s \in Seq(S)
  PROVE  /\ \A r : r \in RecordsOf(s) <=> \E i \in 1..Len(s) : r = s[i]
         /\ RecordsOf(s) \subseteq S /\ (s = <<>> <=> RecordsOf(s) = {})
  <1>1. Len(s) \in Nat /\ DOMAIN s = 1..Len(s) /\ \A i \in 1..Len(s) : s[i] \in S
    OBVIOUS
  <1>2. s # <<>> => 1 \in 1..Len(s)
    OBVIOUS
  <1> QED BY <1>1, <1>2, NoRecords DEF RecordsOf

\* The first record of a sorted block, and the others.
LEMMA TailIs ==
  ASSUME NEW S, S \subseteq Item, NEW s \in Seq(S), Sorted(s), s # <<>>
  PROVE  /\ Head(s) \in RecordsOf(s) /\ Tail(s) \in Seq(S) /\ Sorted(Tail(s))
         /\ RecordsOf(Tail(s)) = RecordsOf(s) \ {Head(s)}
         /\ \A t \in RecordsOf(Tail(s)) : Before(Head(s), t)
  <1>1. PICK n \in Nat : n = Len(s)
    OBVIOUS
  <1>2. n > 0
    BY <1>1
  <1>3. \A i \in 1..n : s[i] \in S
    BY <1>1
  <1>4. Head(s) = s[1]
    BY <1>1, <1>2
  <1>5. Tail(s) \in Seq(S) /\ Len(Tail(s)) = n - 1 /\ \A i \in 1..(n - 1) : Tail(s)[i] = s[i + 1]
    BY <1>1, <1>2
  <1>6. \A i, j \in 1..n : i < j => Before(s[i], s[j])
    BY <1>1 DEF Sorted
  <1>7. Sorted(Tail(s))
    <2>1. ASSUME NEW i \in 1..(n - 1), NEW j \in 1..(n - 1), i < j PROVE Before(s[i + 1], s[j + 1])
      <3>1. i + 1 \in 1..n /\ j + 1 \in 1..n /\ i + 1 < j + 1
        BY <2>1
      <3> QED BY <1>6, <3>1
    <2> QED BY <1>5, <2>1 DEF Sorted
  <1>8. \A i \in 1..n : i # 1 => Before(s[1], s[i])
    <2>1. \A i \in 1..n : i # 1 => 1 < i /\ 1 \in 1..n
      BY <1>2
    <2> QED BY <1>6, <2>1
  <1>9. \A r : r \in RecordsOf(s) <=> \E i \in 1..n : r = s[i]
    BY <1>1, RecordsOfIs
  <1>10. \A r : r \in RecordsOf(Tail(s)) <=> \E i \in 1..(n - 1) : r = s[i + 1]
    <2>1. \A r : r \in RecordsOf(Tail(s)) <=> \E i \in 1..Len(Tail(s)) : r = Tail(s)[i]
      BY <1>5, RecordsOfIs
    <2> QED BY <1>5, <2>1
  <1>11. \A i \in 1..(n - 1) : i + 1 \in 1..n /\ i + 1 # 1
    OBVIOUS
  <1>12. \A t \in RecordsOf(Tail(s)) : t \in RecordsOf(s) /\ Before(s[1], t)
    BY <1>8, <1>9, <1>10, <1>11
  <1>13. s[1] \in Item /\ s[1] \in RecordsOf(s)
    <2>1. 1 \in 1..n
      BY <1>2
    <2> QED BY <1>3, <1>9, <2>1
  <1>14. s[1] \notin RecordsOf(Tail(s))
    BY <1>12, <1>13, BeforeIrreflexive
  <1>15. \A t \in RecordsOf(s) : t = s[1] \/ t \in RecordsOf(Tail(s))
    <2>1. TAKE t \in RecordsOf(s)
    <2>2. PICK i \in 1..n : t = s[i]
      BY <1>9
    <2>3. i = 1 \/ (i - 1 \in 1..(n - 1) /\ (i - 1) + 1 = i)
      BY <1>2
    <2> QED BY <1>10, <2>2, <2>3
  <1> QED BY <1>4, <1>5, <1>7, <1>12, <1>13, <1>14, <1>15

\* Which of two blocks holds the next record.
HeadOf(h) == CASE h[1] = <<>> -> 2
               [] h[2] = <<>> -> 1
               [] OTHER -> IF Before(Head(h[1]), Head(h[2])) THEN 1 ELSE 2

LEMMA HeadFirst ==
  ASSUME NEW S, S \subseteq Item, Unlike(S), NEW h, HeadsGood(S, h), h # NoBlocks,
         NEW m, m = HeadOf(h), NEW o, o = 3 - m
  PROVE  /\ m \in {1, 2} /\ o \in {1, 2} /\ o # m /\ h[m] # <<>>
         /\ h[o] # <<>> => Before(Head(h[m]), Head(h[o]))
  <1>1. /\ h[1] \in Seq(S) /\ h[2] \in Seq(S) /\ Sorted(h[1]) /\ Sorted(h[2]) /\ Disjoint(h[1], h[2])
        /\ h = <<h[1], h[2]>>
    BY DEF HeadsGood, Pair
  <1>2. h[1] # <<>> \/ h[2] # <<>>
    <2>1. SUFFICES ASSUME h[1] = <<>>, h[2] = <<>> PROVE FALSE
      OBVIOUS
    <2>2. h = << <<>>, <<>> >>
      BY <1>1, <2>1
    <2> QED BY <2>2 DEF NoBlocks
  <1>3. h[1] = <<>> /\ h[2] # <<>> => m = 2
    BY DEF HeadOf
  <1>4. h[1] # <<>> /\ h[2] = <<>> => m = 1
    BY DEF HeadOf
  <1>5. h[1] # <<>> /\ h[2] # <<>> => m = IF Before(Head(h[1]), Head(h[2])) THEN 1 ELSE 2
    BY DEF HeadOf
  <1>6. h[1] # <<>> /\ h[2] # <<>> /\ ~Before(Head(h[1]), Head(h[2])) => Before(Head(h[2]), Head(h[1]))
    <2>1. SUFFICES ASSUME h[1] # <<>>, h[2] # <<>>, ~Before(Head(h[1]), Head(h[2]))
                   PROVE  Before(Head(h[2]), Head(h[1]))
      OBVIOUS
    <2>2. /\ 1 \in 1..Len(h[1]) /\ 1 \in 1..Len(h[2]) /\ Head(h[1]) = h[1][1] /\ Head(h[2]) = h[2][1]
      BY <1>1, <2>1
    <2>3. ~Before(h[1][1], h[2][1])
      BY <2>1, <2>2
    <2>4. Before(h[2][1], h[1][1])
      <3>1. PICK i : i = 1
        OBVIOUS
      <3>2. i \in 1..Len(h[1]) /\ i \in 1..Len(h[2]) /\ ~Before(h[1][i], h[2][i])
        BY <2>2, <2>3, <3>1
      <3>3. Before(h[2][i], h[1][i])
        BY <1>1, <3>2, OtherFirst
      <3> QED BY <3>1, <3>3
    <2> QED BY <2>2, <2>4
  <1>7. m = 1 => o = 2
    OBVIOUS
  <1>8. m = 2 => o = 1
    OBVIOUS
  <1>9. m \in {1, 2}
    BY <1>2, <1>3, <1>4, <1>5
  <1> QED BY <1>2, <1>3, <1>4, <1>5, <1>6, <1>7, <1>8, <1>9

\* g are the blocks h without their next record r, which is in block m.
Takes(h, m, r, g) == m = HeadOf(h) /\ r = Head(h[m]) /\ With(h, g, m, Tail(h[m]))

LEMMA HeadTaken ==
  ASSUME NEW S, S \subseteq Item, Unlike(S), NEW h, HeadsGood(S, h), RecordsIn(h) = S, h # NoBlocks,
         NEW m, NEW r, NEW g, Takes(h, m, r, g)
  PROVE  /\ r \in S /\ (\A s \in S \ {r} : Before(r, s))
         /\ HeadsGood(S \ {r}, g) /\ RecordsIn(g) = S \ {r}
  <1>0. m = HeadOf(h) /\ r = Head(h[m]) /\ With(h, g, m, Tail(h[m]))
    BY DEF Takes
  <1>1. PICK o : o = 3 - m
    OBVIOUS
  <1>2. /\ m \in {1, 2} /\ o \in {1, 2} /\ o # m /\ h[m] # <<>>
        /\ h[o] # <<>> => Before(Head(h[m]), Head(h[o]))
    BY <1>0, <1>1, HeadFirst
  <1>3. /\ h[m] \in Seq(S) /\ h[o] \in Seq(S) /\ Sorted(h[m]) /\ Sorted(h[o]) /\ Disjoint(h[m], h[o])
    BY <1>2 DEF HeadsGood, Disjoint
  <1>4. S = RecordsOf(h[m]) \cup RecordsOf(h[o])
    <2>1. S = RecordsOf(h[1]) \cup RecordsOf(h[2])
      BY HeadsHold DEF HeadsGood
    <2> QED BY <1>2, <2>1
  <1>5. /\ r \in RecordsOf(h[m]) /\ Tail(h[m]) \in Seq(S) /\ Sorted(Tail(h[m]))
        /\ RecordsOf(Tail(h[m])) = RecordsOf(h[m]) \ {r}
        /\ \A t \in RecordsOf(Tail(h[m])) : Before(r, t)
    BY <1>0, <1>2, <1>3, TailIs
  <1>6. r \notin RecordsOf(h[o])
    BY <1>3, <1>5 DEF Disjoint
  <1>7. \A t \in RecordsOf(h[o]) : Before(r, t)
    <2>1. CASE h[o] = <<>>
      BY <2>1, NoRecords
    <2>2. CASE h[o] # <<>>
      <3>1. PICK e : e = Head(h[o])
        OBVIOUS
      <3>2. /\ e \in RecordsOf(h[o]) /\ RecordsOf(Tail(h[o])) = RecordsOf(h[o]) \ {e}
            /\ \A t \in RecordsOf(Tail(h[o])) : Before(e, t)
        BY <1>3, <2>2, <3>1, TailIs
      <3>3. Before(r, e)
        BY <1>0, <1>2, <2>2, <3>1
      <3>4. r \in Item /\ \A t \in RecordsOf(h[o]) : t \in Item
        BY <1>4, <1>5
      <3>5. \A t \in RecordsOf(h[o]) \ {e} : Before(r, t)
        BY <3>2, <3>3, <3>4, BeforeTransitive
      <3> QED BY <3>3, <3>5
    <2> QED BY <2>1, <2>2
  <1>8. r \in S /\ \A s \in S \ {r} : Before(r, s)
    BY <1>4, <1>5, <1>7
  <1>9. Pair(g) /\ g[m] = Tail(h[m]) /\ g[o] = h[o]
    BY <1>0, <1>2 DEF With
  <1>10. RecordsOf(g[m]) = RecordsOf(h[m]) \ {r} /\ RecordsOf(g[o]) = RecordsOf(h[o])
    BY <1>5, <1>9
  <1>11. RecordsIn(g) = S \ {r}
    <2>1. RecordsIn(g) = RecordsOf(g[1]) \cup RecordsOf(g[2])
      BY <1>9, HeadsHold
    <2>2. RecordsIn(g) = RecordsOf(g[m]) \cup RecordsOf(g[o])
      BY <1>2, <2>1
    <2> QED BY <1>4, <1>6, <1>10, <2>2
  <1>12. g[m] \in Seq(S \ {r}) /\ g[o] \in Seq(S \ {r})
    <2>1. g[m] \in Seq(S) /\ g[o] \in Seq(S)
      BY <1>3, <1>5, <1>9
    <2>2. \A i \in 1..Len(g[m]) : g[m][i] \in S \ {r}
      <3>1. RecordsOf(g[m]) \subseteq S \ {r}
        BY <1>4, <1>10
      <3> QED BY <2>1, <3>1, RecordsOfIs
    <2>3. \A i \in 1..Len(g[o]) : g[o][i] \in S \ {r}
      <3>1. RecordsOf(g[o]) \subseteq S \ {r}
        BY <1>4, <1>6, <1>10
      <3> QED BY <2>1, <3>1, RecordsOfIs
    <2> QED BY <2>1, <2>2, <2>3, ElementsIn
  <1>13. Sorted(g[m]) /\ Sorted(g[o]) /\ Disjoint(g[m], g[o]) /\ Disjoint(g[o], g[m])
    BY <1>3, <1>5, <1>9, <1>10 DEF Disjoint
  <1>14. HeadsGood(S \ {r}, g)
    <2>1. PICK T : T = S \ {r}
      OBVIOUS
    <2>2. g[1] \in Seq(T) /\ g[2] \in Seq(T) /\ Sorted(g[1]) /\ Sorted(g[2])
      BY <1>2, <1>12, <1>13, <2>1
    <2>3. Disjoint(g[1], g[2])
      BY <1>2, <1>13
    <2> QED BY <1>9, <2>1, <2>2, <2>3 DEF HeadsGood
  <1> QED BY <1>8, <1>11, <1>14

\* What cob_file_sort_process leaves for retrieval.
LEMMA ProcessedIs ==
  ASSUME DataInv, ~retrieving
  PROVE  HeadsGood(Kept, Processed) /\ RecordsIn(Processed) = Kept
  <1>1. PICK K : K = Kept
    OBVIOUS
  <1>2. /\ K \subseteq Item /\ Unlike(K)
        /\ Good(K, file) /\ dest \in {1, 2} /\ Turn(dest, file)
        /\ K = In(queue) \cup In(file) \cup RecordsIn(heads) /\ heads = NoBlocks
    BY <1>1 DEF DataInv, DataOK, Numbers
  <1>3. CASE ~FilesUsed
    <2>1. file[1] \in Seq(Seq(K)) /\ file[2] \in Seq(Seq(K))
      BY <1>2 DEF Good
    <2>2. Len(file[1]) \in Nat /\ Len(file[2]) \in Nat
      BY <2>1
    <2>3. 1..Len(file[1]) = {} /\ 1..Len(file[2]) = {}
      BY <1>2, <1>3, <2>2 DEF FilesUsed, Turn
    <2>4. In(file) = {}
      BY <1>2, <2>3, InIs
    <2>5. PICK b : b = SortQueues
      OBVIOUS
    <2>6. b \in Seq(K) /\ Sorted(b) /\ RecordsOf(b) = K
      <3>1. RecordsOf(b) = In(queue)
        BY <2>5, SortQueuesIs
      <3>2. In(queue) = K
        BY <1>2, <2>4, NothingIn
      <3> QED BY <1>1, <2>5, <3>1, <3>2, SortQueuesIs
    <2>7. PICK h : h = <<b, <<>>>>
      OBVIOUS
    <2>8. h[1] = b /\ h[2] = <<>> /\ Pair(h)
      BY <2>7 DEF Pair
    <2>9. HeadsGood(K, h)
      BY <2>6, <2>8, NoRecords DEF HeadsGood
    <2>10. RecordsIn(h) = K
      BY <2>6, <2>8, HeadsHold, NoRecords
    <2>11. Processed = h
      BY <1>3, <2>5, <2>7 DEF Processed
    <2> QED BY <1>1, <2>9, <2>10, <2>11
  <1>4. CASE FilesUsed
    <2>1. PICK w : w = WriteBlock
      OBVIOUS
    <2>2. Good(K, w) /\ In(w) = K /\ Balanced(w) /\ Len(w[1]) > 0
      BY <1>1, <2>1, WriteBlockIs
    <2>3. PICK p : p = Passes(w, TRUE)
      OBVIOUS
    <2>4. Good(K, p) /\ In(p) = K /\ Balanced(p) /\ Len(p[1]) > 0 /\ ~Again(p, TRUE)
      BY <1>2, <2>2, <2>3, PassesGood
    <2>5. PICK X : X = Seq(K)
      OBVIOUS
    <2>6. p[1] \in Seq(X) /\ p[2] \in Seq(X) /\ \A x \in {1, 2} : \A i \in 1..Len(p[x]) : Sorted(p[x][i])
      BY <2>4, <2>5 DEF Good
    <2>7. PICK l \in Nat, k \in Nat : l = Len(p[1]) /\ k = Len(p[2])
      BY <2>6
    <2>8. l = 1 /\ k \in {0, 1}
      <3>1. l > 0 /\ ~(l > 1) /\ (l = k \/ l = k + 1)
        BY <2>4, <2>7 DEF Again, Balanced
      <3> QED BY <3>1
    <2>9. PICK a, b : a = p[1][1] /\ b = (IF p[2] = <<>> THEN <<>> ELSE p[2][1])
      OBVIOUS
    <2>10. 1 \in 1..Len(p[1]) /\ a \in Seq(K) /\ Sorted(a) /\ (k = 0 => b = <<>>)
      <3>1. 1 \in 1..Len(p[1])
        BY <2>7, <2>8
      <3>2. p[1][1] \in X
        BY <2>6, <3>1
      <3>3. k = 0 => p[2] = <<>>
        <4>1. p[2] \in Seq(X) /\ Len(p[2]) = k
          BY <2>6, <2>7
        <4> QED BY <4>1
      <3>4. Sorted(p[1][1])
        BY <2>6, <3>1
      <3> QED BY <2>5, <2>9, <3>1, <3>2, <3>3, <3>4
    <2>11. k = 1 => 1 \in 1..Len(p[2]) /\ b = p[2][1] /\ p[2][1] \in X
      <3>1. p[2] \in Seq(X) /\ Len(p[2]) = k
        BY <2>6, <2>7
      <3>2. k = 1 => 1 \in 1..Len(p[2]) /\ p[2][1] \in X
        BY <3>1
      <3>3. k = 1 => p[2] # <<>>
        BY <3>1
      <3> QED BY <2>9, <3>2, <3>3
    <2>12. b \in Seq(K) /\ Sorted(b) /\ Disjoint(a, b)
      <3>1. CASE k = 0
        BY <2>10, <3>1, NoRecords
      <3>2. CASE k = 1
        <4>1. 1 \in 1..Len(p[2]) /\ b = p[2][1] /\ b \in Seq(K)
          BY <2>5, <2>11, <3>2
        <4>2. Sorted(b)
          BY <2>6, <4>1
        <4>3. Disjoint(p[1][1], p[2][1])
          BY <2>4, <2>10, <4>1 DEF Good
        <4> QED BY <2>9, <4>1, <4>2, <4>3
      <3> QED BY <2>8, <3>1, <3>2
    <2>13. RecordsOf(a) \cup RecordsOf(b) = K
      <3>1. \A r : r \in K <=> \E x \in {1, 2} : \E i \in 1..Len(p[x]) : r \in RecordsOf(p[x][i])
        BY <2>4, InIs
      <3>2. \A r : r \in K <=> (\E i \in 1..l : r \in RecordsOf(p[1][i])) \/ (\E i \in 1..k : r \in RecordsOf(p[2][i]))
        BY <2>7, <3>1
      <3>3. \A r : r \in K <=> r \in RecordsOf(a) \/ (\E i \in 1..k : r \in RecordsOf(p[2][i]))
        BY <2>8, <2>9, <3>2
      <3>4. CASE k = 0
        <4>1. RecordsOf(b) = {} /\ 1..k = {}
          BY <2>10, <3>4, NoRecords
        <4> QED BY <3>3, <4>1
      <3>5. CASE k = 1
        <4>1. 1..k = {1} /\ b = p[2][1]
          BY <2>11, <3>5
        <4> QED BY <3>3, <4>1
      <3> QED BY <2>8, <3>4, <3>5
    <2>14. PICK h : h = <<a, b>>
      OBVIOUS
    <2>15. h[1] = a /\ h[2] = b /\ Pair(h)
      BY <2>14 DEF Pair
    <2>16. HeadsGood(K, h)
      BY <2>10, <2>12, <2>15 DEF HeadsGood
    <2>17. RecordsIn(h) = K
      BY <2>13, <2>15, HeadsHold
    <2>18. Processed = h
      BY <1>4, <2>1, <2>3, <2>9, <2>14 DEF Processed
    <2> QED BY <1>1, <2>16, <2>17, <2>18
  <1> QED BY <1>3, <1>4

\* The blocks that retrieval merges hold what is kept.
LEMMA BlocksIs ==
  ASSUME DataInv
  PROVE  /\ HeadsGood(Kept, Blocks) /\ RecordsIn(Blocks) = Kept /\ (AtEnd <=> Kept = {})
  <1>1. HeadsGood(Kept, Blocks) /\ RecordsIn(Blocks) = Kept
    <2>1. CASE retrieving
      <3>1. /\ Kept = In(queue) \cup In(file) \cup RecordsIn(heads) /\ HeadsGood(Kept, heads)
            /\ queue = NoBlocks /\ file = NoBlocks
        BY <2>1 DEF DataInv, DataOK
      <3>2. Kept = RecordsIn(heads)
        BY <3>1, NothingIn
      <3>3. Blocks = heads
        BY <2>1 DEF Blocks
      <3> QED BY <3>1, <3>2, <3>3
    <2>2. CASE ~retrieving
      <3>1. Blocks = Processed
        BY <2>2 DEF Blocks
      <3> QED BY <2>2, <3>1, ProcessedIs
    <2> QED BY <2>1, <2>2
  <1>2. PICK h : h = Blocks
    OBVIOUS
  <1>3. h[1] \in Seq(Kept) /\ h[2] \in Seq(Kept) /\ h = <<h[1], h[2]>> /\ RecordsIn(h) = Kept
    BY <1>1, <1>2 DEF HeadsGood, Pair
  <1>4. h = NoBlocks => Kept = {}
    BY <1>3, NothingIn
  <1>5. Kept = {} => h = NoBlocks
    <2>1. RecordsIn(h) = RecordsOf(h[1]) \cup RecordsOf(h[2])
      BY <1>3, HeadsHold DEF Pair
    <2>2. /\ RecordsOf(h[1]) = {} => h[1] = <<>>
          /\ RecordsOf(h[2]) = {} => h[2] = <<>>
      <3>1. PICK K : K = Kept
        OBVIOUS
      <3>2. h[1] \in Seq(K) /\ h[2] \in Seq(K)
        BY <1>3, <3>1
      <3> QED BY <3>2, RecordsOfIs, SMTT(40)
    <2>3. Kept = {} => h[1] = <<>> /\ h[2] = <<>>
      BY <1>3, <2>1, <2>2
    <2> QED BY <1>3, <2>3 DEF NoBlocks
  <1> QED BY <1>1, <1>2, <1>4, <1>5 DEF AtEnd

\* A step of RETURN.
LEMMA RetrieveKeeps ==
  ASSUME DataInv, Retrieve
  PROVE  /\ DataInv' /\ retrieving' /\ UNCHANGED <<allocated, unique>> /\ queue' = NoBlocks
         /\ AtEnd => Kept = {} /\ Kept' = {} /\ record' = record
         /\ ~AtEnd => /\ record' \in Kept /\ Kept' = Kept \ {record'}
                      /\ \A s \in Kept \ {record'} : Before(record', s)
  <1>1. PICK h, H, K, r : h = Blocks /\ H = heads' /\ K = Kept /\ r = record'
    OBVIOUS
  <1>2. HeadsGood(K, h) /\ RecordsIn(h) = K /\ (AtEnd <=> K = {}) /\ (AtEnd <=> h = NoBlocks)
    BY <1>1, BlocksIs DEF AtEnd
  <1>3. /\ retrieving' = TRUE /\ queue' = NoBlocks /\ file' = NoBlocks
        /\ UNCHANGED <<dest, allocated, unique>>
        /\ AtEnd => H = h /\ r = record
        /\ ~AtEnd => r = Head(h[Move]) /\ H = [h EXCEPT ![Move] = Tail(h[Move])]
    BY <1>1 DEF Retrieve
  <1>4. Numbers(K, unique) /\ dest \in {1, 2}
    BY <1>1 DEF DataInv, DataOK
  <1>5. K \subseteq Item /\ Unlike(K) /\ unique \in Nat /\ \A s \in K : s.unique < unique
    BY <1>4 DEF Numbers
  <1>6. PICK L : L = IF AtEnd THEN K ELSE K \ {r}
    OBVIOUS
  <1>7. HeadsGood(L, H) /\ RecordsIn(H) = L /\ (~AtEnd => r \in K /\ \A s \in K \ {r} : Before(r, s))
    <2>1. CASE AtEnd
      BY <1>2, <1>3, <1>6, <2>1
    <2>2. CASE ~AtEnd
      <3>1. PICK m : m = Move
        OBVIOUS
      <3>2. m = HeadOf(h)
        BY <1>1, <3>1 DEF Move, HeadOf
      <3>3. PICK e : e = Tail(h[m])
        OBVIOUS
      <3>4. r = Head(h[m]) /\ H = [h EXCEPT ![m] = e]
        BY <1>3, <2>2, <3>1, <3>3
      <3>5. h # NoBlocks /\ L = K \ {r}
        BY <1>2, <1>6, <2>2
      <3>6. m \in {1, 2}
        <4>1. PICK o : o = 3 - m
          OBVIOUS
        <4> QED BY <1>2, <1>5, <3>2, <3>5, <4>1, HeadFirst
      <3>7. With(h, H, m, e)
        <4>1. Pair(h)
          BY <1>2 DEF HeadsGood
        <4> QED BY <3>4, <3>6, <4>1, PairWith
      <3>8. With(h, H, m, Tail(h[m]))
        BY <3>3, <3>7
      <3>9. r = Head(h[m])
        BY <3>4
      <3>10. /\ r \in K /\ (\A s \in K \ {r} : Before(r, s))
             /\ HeadsGood(K \ {r}, H) /\ RecordsIn(H) = K \ {r}
        <4>1. K \subseteq Item /\ Unlike(K) /\ HeadsGood(K, h) /\ RecordsIn(h) = K /\ h # NoBlocks
          BY <1>2, <1>5, <3>5
        <4>2. Takes(h, m, r, H)
          BY <3>2, <3>8, <3>9 DEF Takes
        <4> QED BY <4>1, <4>2, HeadTaken
      <3> QED BY <2>2, <3>5, <3>10
    <2> QED BY <2>1, <2>2
  <1>8. Kept' = L
    <2>1. Kept' = In(queue') \cup In(file') \cup RecordsIn(heads')
      BY DEF Kept, In
    <2> QED BY <1>1, <1>3, <1>7, <2>1, NothingIn
  <1>9. Numbers(L, unique)
    <2>1. L \subseteq K
      BY <1>6
    <2> QED BY <1>5, <2>1 DEF Numbers, Unlike
  <1>10. DataOK(L, NoBlocks, NoBlocks, dest, H, TRUE, unique)
    <2>1. /\ In(NoBlocks) = {} /\ Pair(NoBlocks) /\ Good(L, NoBlocks) /\ Balanced(NoBlocks)
      BY NothingIn
    <2>2. L = In(NoBlocks) \cup In(NoBlocks) \cup RecordsIn(H) /\ In(NoBlocks) \cap In(NoBlocks) = {}
      BY <1>7, <2>1
    <2> QED BY <1>4, <1>7, <1>9, <2>1, <2>2 DEF DataOK
  <1>11. DataInv'
    BY <1>1, <1>3, <1>8, <1>10 DEF DataInv
  <1> QED BY <1>1, <1>2, <1>3, <1>6, <1>7, <1>8, <1>11

-----------------------------------------------------------------------------
(* The invariant of the SORT statement.                                                  *)

\* Sort memory and the number of records.
CountInv ==
  /\ allocated \in 0..Capacity /\ Len(queue[1]) + Len(queue[2]) <= allocated
  /\ unique \in 0..MaxRecords

PartInv ==
  /\ part \in {"closed", "input", "using", "output", "giving", "given", "done"}
  /\ status \in {"00", "10", "30"} /\ sortReturn \in {0, 16}
  /\ record \in Records \cup {<<>>}
  /\ part = "closed" => Kept = {} /\ ~retrieving /\ unique = 0
  /\ part = "using" => ~retrieving /\ status = "00"

\* GIVING file i has, or failed to take, every record of the SORT.
Told(i) == RecordsOf(given[i]) \cup failed[i] = toGive
\* What GIVING file i holds comes before what is left.
Ahead(i) == \A p \in 1..Len(given[i]) : \A r \in Kept : Before(given[i][p], r)
\* GIVING file i is not open, or nothing is lost for it.
Going(i) == opt[i] = -1 \/ (opt[i] = 0 /\ RecordsOf(given[i]) \cup failed[i] \cup Kept = toGive)

GivenInv ==
  /\ opt \in [1..Files -> {-2, -1, 0}] /\ given \in [1..Files -> Seq(Item)]
  /\ \A i \in 1..Files : Sorted(given[i])
  /\ part \in {"closed", "input", "using", "output"} =>
       \A i \in 1..Files : given[i] = <<>> /\ failed[i] = {}
  /\ part = "giving" => \A i \in 1..Files : Ahead(i) /\ Going(i)
  /\ part \in {"given", "done"} /\ (\A i \in 1..Files : opt[i] = 0) => \A i \in 1..Files : Told(i)
  /\ part = "done" /\ sortReturn = 0 => \A i \in 1..Files : opt[i] = 0

Inv == DataInv /\ CountInv /\ PartInv /\ GivenInv

LEMMA KeptRecords == ASSUME DataInv, CountInv PROVE Kept \subseteq Records
  <1>1. Kept \subseteq Item /\ unique \in 0..MaxRecords /\ \A r \in Kept : r.unique < unique
    BY DEF DataInv, DataOK, Numbers, CountInv
  <1>2. ASSUME NEW r \in Kept PROVE r \in Records
    <2>1. PICK k \in Keys, u \in Nat : r = [key |-> k, unique |-> u]
      BY <1>1 DEF Item
    <2>2. r.unique = u /\ r.unique < unique
      BY <1>1, <2>1
    <2>3. u \in 0..MaxRecords
      BY <1>1, <2>2, SizeAssumption
    <2> QED BY <2>1, <2>3 DEF Records
  <1> QED BY <1>2

\* A step that leaves cobsort as it is.
LEMMA Same ==
  ASSUME DataInv, CountInv, UNCHANGED cobsort
  PROVE  DataInv' /\ CountInv' /\ Kept' = Kept /\ retrieving' = retrieving /\ unique' = unique
  <1>1. UNCHANGED <<queue, file, dest, allocated, heads, retrieving, unique>>
    BY DEF cobsort
  <1>2. Kept' = Kept
    BY <1>1 DEF Kept
  <1>3. DataInv'
    BY <1>1, <1>2 DEF DataInv
  <1>4. CountInv'
    BY <1>1 DEF CountInv
  <1> QED BY <1>1, <1>2, <1>3, <1>4

LEMMA SubmitCounts ==
  ASSUME DataInv, CountInv, ~retrieving, NEW k \in Keys, Submit(k)
  PROVE  CountInv'
  <1>1. Len(queue'[1]) + Len(queue'[2]) = Len(SubmitTo[1]) + Len(SubmitTo[2]) + 1
    BY SubmitKeeps
  <1>2. /\ unique' = unique + 1 /\ unique < MaxRecords
        /\ allocated' = (IF SwitchToFile THEN allocated ELSE allocated + 1)
    BY SubmitIs
  <1>3. PICK l, m : l = Len(queue[1]) /\ m = Len(queue[2])
    OBVIOUS
  <1>4. l \in Nat /\ m \in Nat /\ l + m <= allocated /\ allocated \in 0..Capacity /\ unique \in 0..MaxRecords
    <2>1. queue[1] \in Seq(Seq(Kept)) /\ queue[2] \in Seq(Seq(Kept))
      BY DEF DataInv, DataOK, Good
    <2>2. Len(queue[1]) \in Nat /\ Len(queue[2]) \in Nat
      BY <2>1
    <2> QED BY <1>3, <2>2 DEF CountInv
  <1>5. unique' \in 0..MaxRecords
    BY <1>2, <1>4, SizeAssumption
  <1>6. allocated \in Nat /\ allocated <= Capacity /\ Capacity \in Nat /\ Capacity >= 4
    BY <1>4, CapacityAssumption
  <1>7. PICK L : L = Len(queue'[1]) + Len(queue'[2])
    OBVIOUS
  <1>8. CASE SwitchToFile
    <2>1. PICK x, y : x = Len(SubmitTo[1]) /\ y = Len(SubmitTo[2])
      OBVIOUS
    <2>2. x = 0 /\ y = 0
      BY <1>8, <2>1, NothingIn DEF SubmitTo
    <2>3. L = x + y + 1
      BY <1>1, <1>7, <2>1
    <2>4. allocated' = Capacity
      BY <1>2, <1>8 DEF SwitchToFile
    <2>5. L <= allocated' /\ allocated' \in 0..Capacity
      BY <1>6, <2>2, <2>3, <2>4
    <2> QED BY <1>5, <1>7, <2>5 DEF CountInv
  <1>9. CASE ~SwitchToFile
    <2>1. L = l + m + 1
      BY <1>1, <1>3, <1>7, <1>9 DEF SubmitTo
    <2>2. allocated' = allocated + 1 /\ allocated # Capacity
      BY <1>2, <1>9 DEF SwitchToFile
    <2>3. L <= allocated' /\ allocated' \in 0..Capacity
      BY <1>4, <1>6, <2>1, <2>2
    <2> QED BY <1>5, <1>7, <2>3 DEF CountInv
  <1> QED BY <1>8, <1>9

LEMMA RetrieveCounts ==
  ASSUME DataInv, CountInv, Retrieve
  PROVE  CountInv'
  <1>1. UNCHANGED <<allocated, unique>> /\ queue' = NoBlocks
    BY RetrieveKeeps
  <1>2. Len(queue'[1]) = 0 /\ Len(queue'[2]) = 0
    BY <1>1, NothingIn
  <1> QED BY <1>1, <1>2 DEF CountInv

\* cob_file_sort_close and the start.
Empty == /\ queue = NoBlocks /\ file = NoBlocks /\ dest = 1 /\ allocated = 0
         /\ heads = NoBlocks /\ retrieving = FALSE /\ unique = 0

Fresh == DataInv /\ CountInv /\ Kept = {} /\ ~retrieving /\ unique = 0

LEMMA EmptyIs == Empty => Fresh
  <1> SUFFICES ASSUME Empty PROVE Fresh
    OBVIOUS
  <1>1. Kept = {}
    BY KeptIs, NothingIn DEF Empty
  <1>2. Numbers({}, 0)
    BY DEF Numbers, Unlike
  <1>3. /\ In(NoBlocks) = {} /\ RecordsIn(NoBlocks) = {} /\ Pair(NoBlocks) /\ Balanced(NoBlocks)
        /\ Good({}, NoBlocks) /\ HeadsGood({}, NoBlocks) /\ Len(NoBlocks[1]) = 0 /\ Len(NoBlocks[2]) = 0
    BY NothingIn
  <1>4. Turn(1, NoBlocks)
    BY <1>3 DEF Turn
  <1>5. DataOK({}, NoBlocks, NoBlocks, 1, NoBlocks, FALSE, 0)
    BY <1>2, <1>3, <1>4 DEF DataOK
  <1>6. DataInv
    BY <1>1, <1>5 DEF DataInv, Empty
  <1>7. CountInv
    BY <1>3, CapacityAssumption, SizeAssumption DEF CountInv, Empty
  <1> QED BY <1>1, <1>6, <1>7 DEF Empty, Fresh

LEMMA InitInv == ASSUME Init PROVE Inv
  <1>1. Empty
    BY DEF Init, Empty
  <1>2. DataInv /\ CountInv /\ Kept = {} /\ ~retrieving /\ unique = 0
    BY <1>1, EmptyIs DEF Fresh
  <1>3. PartInv
    BY <1>2 DEF Init, PartInv
  <1>4. GivenInv
    <2>1. /\ part = "closed" /\ opt = [i \in 1..Files |-> -1] /\ given = [i \in 1..Files |-> <<>>]
          /\ failed = [i \in 1..Files |-> {}]
      BY DEF Init
    <2>2. opt \in [1..Files -> {-2, -1, 0}]
      BY <2>1
    <2>3. given \in [1..Files -> Seq(Item)]
      BY <2>1, NoRecords
    <2>4. \A i \in 1..Files : given[i] = <<>> /\ failed[i] = {}
      BY <2>1
    <2>5. \A i \in 1..Files : Sorted(given[i])
      BY <2>4, NoRecords
    <2> QED BY <2>1, <2>2, <2>3, <2>4, <2>5 DEF GivenInv
  <1> QED BY <1>2, <1>3, <1>4 DEF Inv

-----------------------------------------------------------------------------
(* One lemma per action.                                                                 *)

LEMMA ReleaseInv == ASSUME Inv, CobFileRelease PROVE Inv'
  <1>1. /\ part \in {"input", "output", "closed"} /\ part' = part /\ record' = record
        /\ UNCHANGED <<opt, given, failed, toGive>>
    BY DEF CobFileRelease, giving
  <1>2. GivenInv'
    BY <1>1 DEF Inv, GivenInv
  <1>3. CASE part # "closed" /\ ~retrieving /\ \E k \in Keys : Submit(k)
    <2>1. PICK k \in Keys : Submit(k)
      BY <1>3
    <2>2. DataInv' /\ CountInv'
      BY <1>3, <2>1, SubmitKeeps, SubmitCounts DEF Inv
    <2>3. PartInv'
      BY <1>1, <1>3 DEF CobFileRelease, Inv, PartInv
    <2> QED BY <1>2, <2>2, <2>3 DEF Inv
  <1>4. CASE UNCHANGED cobsort
    <2>1. DataInv' /\ CountInv' /\ Kept' = Kept /\ retrieving' = retrieving /\ unique' = unique
      BY <1>4, Same DEF Inv
    <2>2. PartInv'
      BY <1>1, <2>1 DEF CobFileRelease, Inv, PartInv
    <2> QED BY <1>2, <2>1, <2>2 DEF Inv
  <1> QED BY <1>3, <1>4 DEF CobFileRelease

\* A record that is returned, or none.
LEMMA RetrieveRecord ==
  ASSUME Inv, Retrieve
  PROVE  DataInv' /\ CountInv' /\ retrieving' /\ unique' = unique /\ record' \in Records \cup {<<>>}
  <1>1. Kept \subseteq Records /\ record \in Records \cup {<<>>}
    BY KeptRecords DEF Inv, PartInv
  <1> QED BY <1>1, RetrieveKeeps, RetrieveCounts DEF Inv

LEMMA ReturnInv == ASSUME Inv, CobFileReturn PROVE Inv'
  <1>1. /\ part \in {"input", "output", "closed"} /\ part' = part /\ sortReturn' = sortReturn
        /\ UNCHANGED <<opt, given, failed, toGive>>
    BY DEF CobFileReturn, giving
  <1>2. GivenInv'
    BY <1>1 DEF Inv, GivenInv
  <1>3. CASE part = "closed"
    <2>1. UNCHANGED cobsort /\ record' = record /\ status' = "30"
      BY <1>3 DEF CobFileReturn
    <2>2. DataInv' /\ CountInv' /\ Kept' = Kept /\ retrieving' = retrieving /\ unique' = unique
      BY <2>1, Same DEF Inv
    <2>3. PartInv'
      BY <1>1, <2>1, <2>2 DEF Inv, PartInv
    <2> QED BY <1>2, <2>2, <2>3 DEF Inv
  <1>4. CASE part # "closed"
    <2>1. Retrieve /\ status' \in {"00", "10"}
      BY <1>4 DEF CobFileReturn
    <2>2. DataInv' /\ CountInv' /\ retrieving' /\ unique' = unique /\ record' \in Records \cup {<<>>}
      BY <2>1, RetrieveRecord
    <2>3. PartInv'
      BY <1>1, <1>4, <2>1, <2>2 DEF Inv, PartInv
    <2> QED BY <1>2, <2>2, <2>3 DEF Inv
  <1> QED BY <1>3, <1>4

LEMMA SortInitInv == ASSUME Inv, CobFileSortInit PROVE Inv'
  <1>1. /\ part = "closed" /\ part' \in {"input", "using"} /\ status' = "00" /\ sortReturn' = 0
        /\ UNCHANGED cobsort /\ record' = record /\ UNCHANGED <<opt, given, failed, toGive>>
    BY DEF CobFileSortInit, giving
  <1>2. DataInv' /\ CountInv' /\ Kept' = Kept /\ retrieving' = retrieving /\ unique' = unique
    BY <1>1, Same DEF Inv
  <1>3. PartInv'
    BY <1>1, <1>2 DEF Inv, PartInv
  <1>4. GivenInv'
    BY <1>1 DEF Inv, GivenInv
  <1> QED BY <1>2, <1>3, <1>4 DEF Inv

LEMMA UsingInv == ASSUME Inv, CobFileSortUsing PROVE Inv'
  <1>1. /\ part = "using" /\ UNCHANGED <<part, record, status, sortReturn>>
        /\ UNCHANGED <<opt, given, failed, toGive>>
    BY DEF CobFileSortUsing, giving
  <1>2. PICK k \in Keys : Submit(k)
    BY DEF CobFileSortUsing
  <1>3. ~retrieving
    BY <1>1 DEF Inv, PartInv
  <1>4. DataInv' /\ CountInv' /\ retrieving' = retrieving
    BY <1>2, <1>3, SubmitKeeps, SubmitCounts, SubmitIs DEF Inv
  <1>5. PartInv'
    BY <1>1, <1>4 DEF Inv, PartInv
  <1>6. GivenInv'
    BY <1>1 DEF Inv, GivenInv
  <1> QED BY <1>4, <1>5, <1>6 DEF Inv

LEMMA UsingFailsInv == ASSUME Inv, UsingOpenFails PROVE Inv'
  <1>1. /\ part = "using" /\ sortReturn' = 16 /\ UNCHANGED <<part, record, status>>
        /\ UNCHANGED cobsort /\ UNCHANGED <<opt, given, failed, toGive>>
    BY DEF UsingOpenFails, giving
  <1>2. DataInv' /\ CountInv' /\ Kept' = Kept /\ retrieving' = retrieving /\ unique' = unique
    BY <1>1, Same DEF Inv
  <1>3. PartInv'
    BY <1>1, <1>2 DEF Inv, PartInv
  <1>4. GivenInv'
    BY <1>1 DEF Inv, GivenInv
  <1> QED BY <1>2, <1>3, <1>4 DEF Inv

LEMMA OutputInv == ASSUME Inv, OutputProcedure PROVE Inv'
  <1>1. /\ part \in {"input", "using"} /\ part' = "output" /\ UNCHANGED <<record, status, sortReturn>>
        /\ UNCHANGED cobsort /\ UNCHANGED <<opt, given, failed, toGive>>
    BY DEF OutputProcedure, giving
  <1>2. DataInv' /\ CountInv' /\ Kept' = Kept /\ retrieving' = retrieving /\ unique' = unique
    BY <1>1, Same DEF Inv
  <1>3. PartInv'
    BY <1>1, <1>2 DEF Inv, PartInv
  <1>4. GivenInv'
    BY <1>1 DEF Inv, GivenInv
  <1> QED BY <1>2, <1>3, <1>4 DEF Inv

LEMMA CloseInv == ASSUME Inv, CobFileSortClose PROVE Inv'
  <1>1. Empty'
    BY DEF CobFileSortClose, Empty
  <1>2. DataInv' /\ CountInv' /\ Kept' = {} /\ ~retrieving' /\ unique' = 0
    <2>1. Fresh'
      BY <1>1, EmptyIs, PTL
    <2> QED BY <2>1 DEF Fresh
  <1>3. PartInv'
    BY <1>2 DEF CobFileSortClose, Inv, PartInv
  <1>4. GivenInv'
    <2>1. /\ part' = "closed" /\ opt' = [i \in 1..Files |-> -1] /\ given' = [i \in 1..Files |-> <<>>]
          /\ failed' = [i \in 1..Files |-> {}]
      BY DEF CobFileSortClose
    <2>2. opt' \in [1..Files -> {-2, -1, 0}]
      BY <2>1
    <2>3. given' \in [1..Files -> Seq(Item)]
      BY <2>1, NoRecords
    <2>4. \A i \in 1..Files : given'[i] = <<>> /\ failed'[i] = {}
      BY <2>1
    <2>5. \A i \in 1..Files : Sorted(given'[i])
      BY <2>4, NoRecords
    <2> QED BY <2>1, <2>2, <2>3, <2>4, <2>5 DEF GivenInv
  <1> QED BY <1>2, <1>3, <1>4 DEF Inv

LEMMA OpenInv == ASSUME Inv, GivingOpen PROVE Inv'
  <1>1. /\ part \in {"input", "using"} /\ part' = "giving" /\ toGive' = Kept
        /\ UNCHANGED cobsort /\ UNCHANGED <<record, status, sortReturn, given, failed>>
    BY DEF GivingOpen
  <1>2. DataInv' /\ CountInv' /\ Kept' = Kept /\ retrieving' = retrieving /\ unique' = unique
    BY <1>1, Same DEF Inv
  <1>3. PartInv'
    BY <1>1, <1>2 DEF Inv, PartInv
  <1>4. PICK opened \in SUBSET (1..Files) : opt' = [i \in 1..Files |-> IF i \in opened THEN 0 ELSE -1]
    BY DEF GivingOpen
  <1>5. opt' \in [1..Files -> {-2, -1, 0}] /\ \A i \in 1..Files : opt'[i] \in {-1, 0}
    BY <1>4
  <1>6. /\ given \in [1..Files -> Seq(Item)] /\ \A i \in 1..Files : Sorted(given[i])
        /\ \A i \in 1..Files : given[i] = <<>> /\ failed[i] = {}
    BY <1>1 DEF Inv, GivenInv
  <1>7. given' = given /\ failed' = failed /\ toGive' = Kept'
    BY <1>1, <1>2
  <1>8. \A i \in 1..Files : Ahead(i)' /\ Going(i)'
    <2>1. TAKE i \in 1..Files
    <2>2. given'[i] = <<>> /\ failed'[i] = {} /\ opt'[i] \in {-1, 0}
      BY <1>5, <1>6, <1>7
    <2>3. RecordsOf(given'[i]) = {} /\ 1..Len(given'[i]) = {}
      BY <2>2, NoRecords
    <2>4. Ahead(i)'
      BY <2>3 DEF Ahead
    <2>5. Going(i)'
      BY <1>7, <2>2, <2>3 DEF Going
    <2> QED BY <2>4, <2>5
  <1>9. GivenInv'
    BY <1>1, <1>5, <1>6, <1>7, <1>8 DEF GivenInv
  <1> QED BY <1>2, <1>3, <1>9 DEF Inv

LEMMA EndInv == ASSUME Inv, GivingEnd PROVE Inv'
  <1>1. /\ part = "giving" /\ part' = "given" /\ status' = "10" /\ AtEnd /\ Retrieve
        /\ sortReturn' = sortReturn /\ UNCHANGED <<opt, given, failed, toGive>>
    BY DEF GivingEnd, giving
  <1>2. DataInv' /\ CountInv' /\ retrieving' /\ unique' = unique /\ record' \in Records \cup {<<>>}
    BY <1>1, RetrieveRecord
  <1>3. PartInv'
    BY <1>1, <1>2 DEF Inv, PartInv
  <1>4. Kept = {}
    BY <1>1, BlocksIs DEF Inv
  <1>5. \A i \in 1..Files : Going(i)
    BY <1>1 DEF Inv, GivenInv
  <1>6. (\A i \in 1..Files : opt[i] = 0) => \A i \in 1..Files : Told(i)
    <2>1. ASSUME NEW i \in 1..Files, opt[i] = 0 PROVE Told(i)
      <3>1. RecordsOf(given[i]) \cup failed[i] \cup Kept = toGive
        BY <1>5, <2>1 DEF Going
      <3> QED BY <1>4, <3>1 DEF Told
    <2> QED BY <2>1
  <1>7. GivenInv'
    BY <1>1, <1>6 DEF Inv, GivenInv, Told
  <1> QED BY <1>2, <1>3, <1>7 DEF Inv

LEMMA GivingCloseInv == ASSUME Inv, GivingClose PROVE Inv'
  <1>1. /\ part = "given" /\ part' = "done" /\ UNCHANGED <<record, status>>
        /\ sortReturn' = (IF GivingFailed THEN 16 ELSE sortReturn)
        /\ UNCHANGED cobsort /\ UNCHANGED <<opt, given, failed, toGive>>
    BY DEF GivingClose, giving
  <1>2. DataInv' /\ CountInv' /\ Kept' = Kept /\ retrieving' = retrieving /\ unique' = unique
    BY <1>1, Same DEF Inv
  <1>3. PartInv'
    BY <1>1, <1>2 DEF Inv, PartInv
  <1>4. sortReturn' = 0 => \A i \in 1..Files : opt[i] = 0
    <2>1. ASSUME sortReturn' = 0, NEW i \in 1..Files PROVE opt[i] = 0
      <3>1. ~GivingFailed
        BY <1>1, <2>1
      <3>2. opt[i] \in {-2, -1, 0}
        BY DEF Inv, GivenInv
      <3> QED BY <3>1, <3>2 DEF GivingFailed
    <2> QED BY <2>1
  <1>5. GivenInv'
    BY <1>1, <1>4 DEF Inv, GivenInv, Told
  <1> QED BY <1>2, <1>3, <1>5 DEF Inv

-----------------------------------------------------------------------------
(* GIVING.                                                                               *)

\* One record more for a GIVING file.
LEMMA RecordsAppend ==
  ASSUME NEW S, NEW s \in Seq(S), NEW e \in S
  PROVE  RecordsOf(Append(s, e)) = RecordsOf(s) \cup {e}
  <1>1. PICK k \in Nat : k = Len(s)
    OBVIOUS
  <1>2. /\ Append(s, e) \in Seq(S) /\ Len(Append(s, e)) = k + 1 /\ Append(s, e)[k + 1] = e
        /\ \A p \in 1..k : Append(s, e)[p] = s[p]
    BY <1>1, AppendIs
  <1>3. \A p \in 1..(k + 1) : p = k + 1 \/ p \in 1..k
    OBVIOUS
  <1>4. \A p \in 1..k : p \in 1..(k + 1)
    OBVIOUS
  <1>5. k + 1 \in 1..(k + 1)
    OBVIOUS
  <1>6. \A r : r \in RecordsOf(s) <=> \E i \in 1..k : r = s[i]
    BY <1>1, RecordsOfIs
  <1>7. \A r : r \in RecordsOf(Append(s, e)) <=> \E i \in 1..(k + 1) : r = Append(s, e)[i]
    <2>1. PICK t : t = Append(s, e)
      OBVIOUS
    <2>2. t \in Seq(S) /\ Len(t) = k + 1
      BY <1>2, <2>1
    <2>3. \A r : r \in RecordsOf(t) <=> \E i \in 1..(k + 1) : r = t[i]
      BY <2>2, RecordsOfIs
    <2> QED BY <2>1, <2>3
  <1> QED BY <1>2, <1>3, <1>4, <1>5, <1>6, <1>7

\* A block that is ahead of K takes from K the record that is first.
LEMMA TakesNext ==
  ASSUME NEW s \in Seq(Item), Sorted(s), NEW K, K \subseteq Item, NEW r \in K, \A t \in K \ {r} : Before(r, t),
         \A p \in 1..Len(s) : \A t \in K : Before(s[p], t)
  PROVE  /\ Append(s, r) \in Seq(Item) /\ Sorted(Append(s, r))
         /\ \A p \in 1..Len(Append(s, r)) : \A t \in K \ {r} : Before(Append(s, r)[p], t)
         /\ RecordsOf(Append(s, r)) = RecordsOf(s) \cup {r}
  <1>1. PICK k \in Nat : k = Len(s)
    OBVIOUS
  <1>2. r \in Item
    OBVIOUS
  <1>3. /\ Append(s, r) \in Seq(Item) /\ Len(Append(s, r)) = k + 1 /\ Append(s, r)[k + 1] = r
        /\ \A p \in 1..k : Append(s, r)[p] = s[p]
    BY <1>1, <1>2, AppendIs
  <1>4. \A p \in 1..k : Before(s[p], r)
    BY <1>1
  <1>5. Sorted(Append(s, r))
    BY <1>1, <1>2, <1>4, AppendSorted
  <1>6. \A p \in 1..(k + 1) : p = k + 1 \/ p \in 1..k
    OBVIOUS
  <1>7. \A p \in 1..(k + 1) : \A t \in K \ {r} : Before(Append(s, r)[p], t)
    BY <1>1, <1>3, <1>6
  <1>8. RecordsOf(Append(s, r)) = RecordsOf(s) \cup {r}
    BY <1>2, RecordsAppend
  <1> QED BY <1>3, <1>5, <1>7, <1>8

\* Without a permanent error every open file is reached.
LEMMA AllReached ==
  ASSUME opt \in [1..Files -> {-2, -1, 0}], NEW outcome, GaveUp(outcome) = {}, NEW i \in 1..Files, opt[i] = 0
  PROVE  i \in Reached(outcome) /\ outcome[i] # "permanent"
  <1>1. i \in Reached(outcome)
    <2>1. PICK T : T = {j \in 1..(i - 1) : opt[j] >= 0 /\ outcome[j] = "permanent"}
      OBVIOUS
    <2>2. T \in SUBSET Nat
      BY <2>1
    <2>3. CASE T = {}
      BY <2>1, <2>3 DEF Reached
    <2>4. CASE T # {}
      <3>1. PICK j \in T : \A l \in T : j <= l
        BY <2>2, <2>4, LeastOf
      <3>2. j \in 1..(i - 1) /\ opt[j] >= 0 /\ outcome[j] = "permanent"
        BY <2>1, <3>1
      <3>3. \A l \in 1..(j - 1) : l \notin T /\ l \in 1..(i - 1)
        BY <2>1, <3>1, <3>2
      <3>4. \A l \in 1..(j - 1) : opt[l] >= 0 => outcome[l] # "permanent"
        BY <2>1, <3>3
      <3>5. j \in 1..Files
        BY <3>2, SizeAssumption
      <3>6. j \in GaveUp(outcome)
        BY <3>2, <3>4, <3>5 DEF GaveUp, Reached
      <3> QED BY <3>6
    <2> QED BY <2>3, <2>4
  <1>2. outcome[i] # "permanent"
    BY <1>1 DEF GaveUp
  <1> QED BY <1>1, <1>2

LEMMA WriteInv == ASSUME Inv, GivingWrite PROVE Inv'
  <1>1. /\ part = "giving" /\ ~AtEnd /\ Retrieve /\ UNCHANGED <<status, sortReturn, toGive>>
    BY DEF GivingWrite
  <1>2. DataInv' /\ CountInv' /\ retrieving' /\ unique' = unique /\ record' \in Records \cup {<<>>}
    BY <1>1, RetrieveRecord
  <1>3. PICK outcome \in [1..Files -> {"ok", "permanent", "other"}] :
          /\ given' = [i \in 1..Files |->
                         IF i \in Reached(outcome) /\ outcome[i] = "ok" THEN Append(given[i], record')
                         ELSE given[i]]
          /\ failed' = [i \in 1..Files |->
                          IF i \in Reached(outcome) /\ outcome[i] = "other" THEN failed[i] \cup {record'}
                          ELSE failed[i]]
          /\ opt' = [i \in 1..Files |-> IF i \in GaveUp(outcome) THEN -2 ELSE opt[i]]
          /\ part' = IF GaveUp(outcome) = {} THEN part ELSE "given"
    BY DEF GivingWrite
  <1>4. part' \in {"giving", "given"}
    BY <1>1, <1>3
  <1>5. PartInv'
    BY <1>1, <1>2, <1>4 DEF Inv, PartInv
  <1>6. PICK r, K : r = record' /\ K = Kept
    OBVIOUS
  <1>7. r \in K /\ Kept' = K \ {r} /\ K \subseteq Item /\ \A s \in K \ {r} : Before(r, s)
    <2>1. Kept \subseteq Item
      BY DEF Inv, DataInv, DataOK, Numbers
    <2> QED BY <1>1, <1>6, <2>1, RetrieveKeeps DEF Inv
  <1>8. /\ opt \in [1..Files -> {-2, -1, 0}] /\ given \in [1..Files -> Seq(Item)]
        /\ \A i \in 1..Files : Sorted(given[i]) /\ Ahead(i) /\ Going(i)
    BY <1>1 DEF Inv, GivenInv
  <1>9. ASSUME NEW i \in 1..Files
        PROVE  /\ given'[i] \in Seq(Item) /\ Sorted(given'[i]) /\ Ahead(i)'
               /\ i \in Reached(outcome) /\ outcome[i] = "ok" => RecordsOf(given'[i]) = RecordsOf(given[i]) \cup {r}
               /\ ~(i \in Reached(outcome) /\ outcome[i] = "ok") => given'[i] = given[i]
    <2>1. given[i] \in Seq(Item) /\ Sorted(given[i]) /\ \A p \in 1..Len(given[i]) : \A t \in K : Before(given[i][p], t)
      BY <1>6, <1>8 DEF Ahead
    <2>2. CASE i \in Reached(outcome) /\ outcome[i] = "ok"
      <3>1. given'[i] = Append(given[i], r)
        BY <1>3, <1>6, <2>2
      <3>2. PICK s : s = given[i]
        OBVIOUS
      <3>3. /\ Append(s, r) \in Seq(Item) /\ Sorted(Append(s, r))
            /\ \A p \in 1..Len(Append(s, r)) : \A t \in K \ {r} : Before(Append(s, r)[p], t)
            /\ RecordsOf(Append(s, r)) = RecordsOf(s) \cup {r}
        BY <1>7, <2>1, <3>2, TakesNext
      <3> QED BY <1>7, <2>2, <3>1, <3>2, <3>3 DEF Ahead
    <2>3. CASE ~(i \in Reached(outcome) /\ outcome[i] = "ok")
      <3>1. given'[i] = given[i]
        BY <1>3, <2>3
      <3>2. Ahead(i)'
        BY <1>7, <2>1, <3>1 DEF Ahead
      <3> QED BY <2>1, <2>3, <3>1, <3>2
    <2> QED BY <2>2, <2>3
  <1>10. given' \in [1..Files -> Seq(Item)]
    <2>1. given' = [i \in 1..Files |-> given'[i]]
      BY <1>3
    <2> QED BY <1>9, <2>1
  <1>11. opt' \in [1..Files -> {-2, -1, 0}]
    BY <1>3, <1>8
  <1>12. CASE GaveUp(outcome) = {}
    <2>1. part' = "giving" /\ \A i \in 1..Files : opt'[i] = opt[i]
      BY <1>1, <1>3, <1>12
    <2>2. ASSUME NEW i \in 1..Files PROVE Going(i)'
      <3>1. CASE opt[i] = -1
        <4>1. opt'[i] = -1
          BY <2>1, <3>1
        <4> QED BY <4>1 DEF Going
      <3>2. CASE opt[i] # -1
        <4>1. opt[i] = 0 /\ RecordsOf(given[i]) \cup failed[i] \cup K = toGive
          BY <1>6, <1>8, <3>2 DEF Going
        <4>2. i \in Reached(outcome) /\ outcome[i] # "permanent"
          BY <1>8, <1>12, <4>1, AllReached
        <4>3. outcome[i] \in {"ok", "other"}
          BY <4>2
        <4>4. RecordsOf(given'[i]) \cup failed'[i] = RecordsOf(given[i]) \cup failed[i] \cup {r}
          <5>1. CASE outcome[i] = "ok"
            <6>1. failed'[i] = failed[i]
              BY <1>3, <5>1
            <6>2. RecordsOf(given'[i]) = RecordsOf(given[i]) \cup {r}
              BY <1>9, <4>2, <5>1
            <6> QED BY <6>1, <6>2
          <5>2. CASE outcome[i] = "other"
            <6>1. failed'[i] = failed[i] \cup {r}
              BY <1>3, <1>6, <4>2, <5>2
            <6>2. given'[i] = given[i]
              BY <1>9, <5>2
            <6> QED BY <6>1, <6>2
          <5> QED BY <4>3, <5>1, <5>2
        <4>5. RecordsOf(given'[i]) \cup failed'[i] \cup Kept' = toGive'
          BY <1>1, <1>7, <4>1, <4>4
        <4> QED BY <2>1, <4>1, <4>5 DEF Going
      <3> QED BY <3>1, <3>2
    <2>3. GivenInv'
      BY <1>9, <1>10, <1>11, <2>1, <2>2 DEF GivenInv
    <2> QED BY <1>2, <1>5, <2>3 DEF Inv
  <1>13. CASE GaveUp(outcome) # {}
    <2>1. PICK j \in GaveUp(outcome) : TRUE
      BY <1>13
    <2>2. j \in 1..Files /\ opt'[j] = -2
      <3>1. j \in 1..Files
        BY <2>1 DEF GaveUp, Reached
      <3> QED BY <1>3, <2>1, <3>1
    <2>3. part' = "given" /\ ~(\A i \in 1..Files : opt'[i] = 0)
      BY <1>3, <1>13, <2>2
    <2>4. GivenInv'
      BY <1>9, <1>10, <1>11, <2>3 DEF GivenInv
    <2> QED BY <1>2, <1>5, <2>4 DEF Inv
  <1> QED BY <1>12, <1>13

LEMMA StutterInv == ASSUME Inv, UNCHANGED vars PROVE Inv'
  <1>1. /\ UNCHANGED cobsort /\ UNCHANGED <<part, record, status, sortReturn>>
        /\ UNCHANGED <<opt, given, failed, toGive>>
    BY DEF vars, giving
  <1>2. DataInv' /\ CountInv' /\ Kept' = Kept /\ retrieving' = retrieving /\ unique' = unique
    BY <1>1, Same DEF Inv
  <1>3. PartInv'
    BY <1>1, <1>2 DEF Inv, PartInv
  <1>4. GivenInv'
    BY <1>1, <1>2 DEF Inv, GivenInv, Told, Ahead, Going
  <1> QED BY <1>2, <1>3, <1>4 DEF Inv

LEMMA NextInv == ASSUME Inv, [Next]_vars PROVE Inv'
  <1>1. CASE Next
    <2>1. CASE CobFileRelease
      BY <2>1, ReleaseInv
    <2>2. CASE CobFileReturn
      BY <2>2, ReturnInv
    <2>3. CASE CobFileSortInit
      BY <2>3, SortInitInv
    <2>4. CASE CobFileSortUsing
      BY <2>4, UsingInv
    <2>5. CASE UsingOpenFails
      BY <2>5, UsingFailsInv
    <2>6. CASE OutputProcedure
      BY <2>6, OutputInv
    <2>7. CASE GivingOpen
      BY <2>7, OpenInv
    <2>8. CASE GivingWrite
      BY <2>8, WriteInv
    <2>9. CASE GivingEnd
      BY <2>9, EndInv
    <2>10. CASE GivingClose
      BY <2>10, GivingCloseInv
    <2>11. CASE CobFileSortClose
      BY <2>11, CloseInv
    <2> QED BY <1>1, <2>1, <2>2, <2>3, <2>4, <2>5, <2>6, <2>7, <2>8, <2>9, <2>10, <2>11 DEF Next
  <1>2. CASE UNCHANGED vars
    BY <1>2, StutterInv
  <1> QED BY <1>1, <1>2

\* The queues, files and blocks hold what is kept, in order and without repetition, and the
\* GIVING files what SORT-RETURN will say of them.
THEOREM Inductive == Spec => []Inv
  <1>1. Init => Inv
    BY InitInv
  <1>2. Inv /\ [Next]_vars => Inv'
    BY NextInv
  <1> QED BY <1>1, <1>2, PTL DEF Spec

LEMMA InvType == Inv => TypeOK
  <1> SUFFICES ASSUME Inv PROVE TypeOK
    OBVIOUS
  <1>1. Kept \subseteq Records
    BY KeptRecords DEF Inv
  <1>2. Pair(heads)
    BY DEF Inv, DataInv, DataOK, HeadsGood
  <1>3. \A q \in {1, 2} : RecordsIn(queue[q]) \cup RecordsIn(file[q]) \cup RecordsOf(heads[q]) \subseteq Kept
    <2>1. RecordsIn(heads) = RecordsOf(heads[1]) \cup RecordsOf(heads[2])
      BY <1>2, HeadsHold
    <2> QED BY <2>1 DEF Kept
  <1>4. dest \in {1, 2} /\ retrieving \in BOOLEAN
    BY DEF Inv, DataInv, DataOK
  <1> QED BY <1>1, <1>3, <1>4 DEF TypeOK, Inv, CountInv, PartInv, GivenInv

LEMMA InvTells == Inv => SortReturnTells
  <1> SUFFICES ASSUME Inv, part = "done", sortReturn = 0, NEW i \in 1..Files
               PROVE  /\ RecordsOf(given[i]) \cup failed[i] = toGive
                      /\ \A a, b \in DOMAIN given[i] : a < b => Before(given[i][a], given[i][b])
    BY DEF SortReturnTells
  <1>1. Told(i) /\ Sorted(given[i]) /\ given[i] \in Seq(Item)
    BY DEF Inv, GivenInv
  <1>2. DOMAIN given[i] = 1..Len(given[i])
    BY <1>1
  <1> QED BY <1>1, <1>2 DEF Told, Sorted

\* Sort memory never holds more than its records, every record in a queue, file or block
\* is one that was released.
THEOREM TypeCorrect == Spec => []TypeOK
BY Inductive, InvType, PTL

\* With a SORT-RETURN of 0 the GIVING files hold every record, in the order of the keys.
THEOREM SortReturnIsTrue == Spec => []SortReturnTells
BY Inductive, InvTells, PTL

-----------------------------------------------------------------------------
(* SORT keeps its promise.                                                               *)

LEMMA SameOrder == \A a, b : Promise!Before(a, b) <=> Before(a, b)
  BY DEF Before, Promise!Before

\* The phase that Sorting sees.
Phase == IF part = "closed" THEN "closed" ELSE IF retrieving THEN "output" ELSE "input"

PromiseStep == Promise!Next \/ UNCHANGED Promise!vars

LEMMA SeenSame ==
  ASSUME Phase' = Phase, Kept' = Kept, unique' = unique, status' = status, record' = record
  PROVE  PromiseStep
  BY DEF PromiseStep, Promise!vars, Phase

LEMMA SeenRefused ==
  ASSUME Phase # "input", Phase' = Phase, Kept' = Kept, unique' = unique, status' = "30", record' = record
  PROVE  PromiseStep
  <1>1. Promise!Refused
    BY DEF Promise!Refused, Phase
  <1> QED BY <1>1 DEF PromiseStep, Promise!Next

LEMMA SeenRelease ==
  ASSUME NEW k \in Keys, Phase = "input", Phase' = "input", Kept' = Kept \cup {Released(k)}, unique' = unique + 1,
         status' = "00", record' = record
  PROVE  PromiseStep
  <1>1. Promise!Release(k)
    BY DEF Promise!Release, Phase, Released
  <1> QED BY <1>1 DEF PromiseStep, Promise!Next

LEMMA SeenReturn ==
  ASSUME Phase # "closed", Phase' = "output", unique' = unique, record' \in Kept, Kept' = Kept \ {record'},
         \A s \in Kept \ {record'} : Before(record', s), status' \in {"00", status}
  PROVE  PromiseStep
  <1>1. \A s \in Kept \ {record'} : Promise!Before(record', s)
    BY SameOrder
  <1>2. PICK r : r = record'
    OBVIOUS
  <1>3. /\ r \in Kept /\ \A s \in Kept \ {r} : Promise!Before(r, s)
        /\ record' = r /\ Kept' = Kept \ {r} /\ status' \in {"00", status}
    BY <1>1, <1>2
  <1>4. Promise!Return
    BY <1>3 DEF Promise!Return, Phase
  <1> QED BY <1>4 DEF PromiseStep, Promise!Next

LEMMA SeenEnd ==
  ASSUME Phase # "closed", Phase' = "output", unique' = unique, Kept = {}, Kept' = {}, record' = record, status' = "10"
  PROVE  PromiseStep
  <1>1. Promise!Return
    BY DEF Promise!Return, Phase
  <1> QED BY <1>1 DEF PromiseStep, Promise!Next

LEMMA SeenBegin ==
  ASSUME Phase = "closed", Phase' = "input", Kept' = Kept, unique' = unique, record' = record, status' = "00"
  PROVE  PromiseStep
  <1>1. Promise!Begin
    BY DEF Promise!Begin, Phase
  <1> QED BY <1>1 DEF PromiseStep, Promise!Next

LEMMA SeenClose ==
  ASSUME Phase # "closed", Phase' = "closed", Kept' = {}, unique' = 0, record' = record, status' = "00"
  PROVE  PromiseStep
  <1>1. Promise!End
    BY DEF Promise!End, Phase
  <1> QED BY <1>1 DEF PromiseStep, Promise!Next

LEMMA StartsAsPromised == Init => Promise!Init
  <1> SUFFICES ASSUME Init PROVE Promise!Init
    OBVIOUS
  <1>1. Kept = {} /\ ~retrieving /\ unique = 0 /\ part = "closed"
    BY InitInv DEF Inv, PartInv, Init
  <1> QED BY <1>1 DEF Promise!Init, Init

LEMMA ReleaseSeen == ASSUME Inv, CobFileRelease PROVE PromiseStep
  <1>1. part' = part /\ record' = record
    BY DEF CobFileRelease
  <1>2. CASE part # "closed" /\ ~retrieving /\ (\E k \in Keys : Submit(k)) /\ status' = "00"
    <2>1. PICK k \in Keys : Submit(k)
      BY <1>2
    <2>2. Kept' = Kept \cup {Released(k)} /\ unique' = unique + 1 /\ retrieving' = retrieving
      BY <1>2, <2>1, SubmitKeeps, SubmitIs DEF Inv
    <2>3. Phase = "input" /\ Phase' = "input"
      BY <1>1, <1>2, <2>2 DEF Phase
    <2> QED BY <1>1, <1>2, <2>2, <2>3, SeenRelease
  <1>3. CASE (part = "closed" \/ retrieving) /\ UNCHANGED cobsort /\ status' = "30"
    <2>1. Kept' = Kept /\ retrieving' = retrieving /\ unique' = unique
      BY <1>3, Same DEF Inv
    <2>2. Phase # "input" /\ Phase' = Phase
      BY <1>1, <1>3, <2>1 DEF Phase
    <2> QED BY <1>1, <1>3, <2>1, <2>2, SeenRefused
  <1> QED BY <1>2, <1>3 DEF CobFileRelease

LEMMA ReturnSeen == ASSUME Inv, CobFileReturn PROVE PromiseStep
  <1>1. part' = part
    BY DEF CobFileReturn
  <1>2. CASE part = "closed"
    <2>1. UNCHANGED cobsort /\ record' = record /\ status' = "30"
      BY <1>2 DEF CobFileReturn
    <2>2. Kept' = Kept /\ retrieving' = retrieving /\ unique' = unique
      BY <2>1, Same DEF Inv
    <2>3. Phase # "input" /\ Phase' = Phase
      BY <1>1, <1>2, <2>2 DEF Phase
    <2> QED BY <2>1, <2>2, <2>3, SeenRefused
  <1>3. CASE part # "closed"
    <2>1. Retrieve /\ status' = IF AtEnd THEN "10" ELSE "00"
      BY <1>3 DEF CobFileReturn
    <2>2. retrieving' /\ unique' = unique
      BY <2>1, RetrieveKeeps DEF Inv
    <2>3. Phase # "closed" /\ Phase' = "output"
      BY <1>1, <1>3, <2>2 DEF Phase
    <2>4. CASE AtEnd
      <3>1. Kept = {} /\ Kept' = {} /\ record' = record
        BY <2>1, <2>4, RetrieveKeeps DEF Inv
      <3> QED BY <2>1, <2>2, <2>3, <2>4, <3>1, SeenEnd
    <2>5. CASE ~AtEnd
      <3>1. /\ record' \in Kept /\ Kept' = Kept \ {record'}
            /\ \A s \in Kept \ {record'} : Before(record', s)
        BY <2>1, <2>5, RetrieveKeeps DEF Inv
      <3> QED BY <2>1, <2>2, <2>3, <2>5, <3>1, SeenReturn
    <2> QED BY <2>4, <2>5
  <1> QED BY <1>2, <1>3

LEMMA GivingSeen == ASSUME Inv, GivingWrite \/ GivingEnd PROVE PromiseStep
  <1>1. /\ part = "giving" /\ part' # "closed" /\ Retrieve
        /\ ~AtEnd => status' = status
        /\ AtEnd => status' = "10"
    BY DEF GivingWrite, GivingEnd
  <1>2. retrieving' /\ unique' = unique
    BY <1>1, RetrieveKeeps DEF Inv
  <1>3. Phase # "closed" /\ Phase' = "output"
    BY <1>1, <1>2 DEF Phase
  <1>4. CASE AtEnd
    <2>1. Kept = {} /\ Kept' = {} /\ record' = record
      BY <1>1, <1>4, RetrieveKeeps DEF Inv
    <2> QED BY <1>1, <1>2, <1>3, <1>4, <2>1, SeenEnd
  <1>5. CASE ~AtEnd
    <2>1. /\ record' \in Kept /\ Kept' = Kept \ {record'}
          /\ \A s \in Kept \ {record'} : Before(record', s)
      BY <1>1, <1>5, RetrieveKeeps DEF Inv
    <2> QED BY <1>1, <1>2, <1>3, <1>5, <2>1, SeenReturn
  <1> QED BY <1>4, <1>5

LEMMA NextSeen == ASSUME Inv, [Next]_vars PROVE PromiseStep
  <1>1. CASE CobFileRelease
    BY <1>1, ReleaseSeen
  <1>2. CASE CobFileReturn
    BY <1>2, ReturnSeen
  <1>3. CASE CobFileSortInit
    <2>1. /\ part = "closed" /\ part' \in {"input", "using"} /\ status' = "00" /\ record' = record
          /\ UNCHANGED cobsort
      BY <1>3 DEF CobFileSortInit
    <2>2. Kept' = Kept /\ retrieving' = retrieving /\ unique' = unique /\ ~retrieving
      BY <2>1, Same DEF Inv, PartInv
    <2>3. Phase = "closed" /\ Phase' = "input"
      BY <2>1, <2>2 DEF Phase
    <2> QED BY <2>1, <2>2, <2>3, SeenBegin
  <1>4. CASE CobFileSortUsing
    <2>1. part = "using" /\ part' = part /\ record' = record /\ status' = status
      BY <1>4 DEF CobFileSortUsing
    <2>2. ~retrieving /\ status = "00"
      BY <2>1 DEF Inv, PartInv
    <2>3. PICK k \in Keys : Submit(k)
      BY <1>4 DEF CobFileSortUsing
    <2>4. Kept' = Kept \cup {Released(k)} /\ unique' = unique + 1 /\ retrieving' = retrieving
      BY <2>2, <2>3, SubmitKeeps, SubmitIs DEF Inv
    <2>5. Phase = "input" /\ Phase' = "input"
      BY <2>1, <2>2, <2>4 DEF Phase
    <2> QED BY <2>1, <2>2, <2>4, <2>5, SeenRelease
  <1>5. CASE UsingOpenFails \/ OutputProcedure \/ GivingOpen \/ GivingClose \/ UNCHANGED vars
    <2>1. UNCHANGED cobsort /\ record' = record /\ status' = status /\ (part' = "closed" <=> part = "closed")
      BY <1>5 DEF UsingOpenFails, OutputProcedure, GivingOpen, GivingClose, vars
    <2>2. Kept' = Kept /\ retrieving' = retrieving /\ unique' = unique
      BY <2>1, Same DEF Inv
    <2>3. Phase' = Phase
      BY <2>1, <2>2 DEF Phase
    <2> QED BY <2>1, <2>2, <2>3, SeenSame
  <1>6. CASE GivingWrite \/ GivingEnd
    BY <1>6, GivingSeen
  <1>7. CASE CobFileSortClose
    <2>1. Empty' /\ part # "closed" /\ part' = "closed" /\ status' = "00" /\ record' = record
      BY <1>7 DEF CobFileSortClose, Empty
    <2>2. Fresh'
      BY <2>1, EmptyIs, PTL
    <2>3. Kept' = {} /\ unique' = 0
      BY <2>2 DEF Fresh
    <2>4. Phase # "closed" /\ Phase' = "closed"
      BY <2>1 DEF Phase
    <2> QED BY <2>1, <2>3, <2>4, SeenClose
  <1> QED BY <1>1, <1>2, <1>3, <1>4, <1>5, <1>6, <1>7 DEF Next

\* SORT delivers what was released, each record once, in the order of the keys, and records
\* with equal keys in the order of their RELEASE: queues, blocks, files and passes implement
\* Sorting.
THEOREM Sorts == Spec => SortsRecords
  <1>1. Inv /\ [Next]_vars => [Promise!Next]_(Promise!vars)
    BY NextSeen DEF PromiseStep
  <1> QED BY <1>1, StartsAsPromised, Inductive, PTL DEF Spec, SortsRecords, Promise!Spec
===============================================================================
