--------------------------- MODULE CallCache_proofs ---------------------------
(***************************************************************************)
(* The inductive invariant of CallCache.  Its parts take what they speak   *)
(* of as arguments, so that they can be said of the call table between the *)
(* two halves of a CALL: after the name is resolved, before the program is *)
(* entered.                                                                *)
(***************************************************************************)
EXTENDS CallCache, FiniteSetTheorems, TLAPS

Plain(n) == Kind[n] # "RECURSIVE"

Typed(t) == t \in [Names -> Entries]

\* The lists of libraries.
Balanced(op, dl) ==
  /\ op \in [Libs -> 0..MaxOpens] /\ dl \in [Libs -> 0..MaxOpens]
  /\ \A l \in Libs : op[l] = dl[l] + IF l \in Preload THEN 1 ELSE 0

\* An entry that may close its library is that of the name of the library, and the
\* library is open once.
Closable(t, dl) ==
  \A n \in Names : /\ t[n].handle => t[n].module # "absent"
                   /\ t[n].handle /\ ~t[n].nocanc =>
                        n \in Libs /\ Home[n] = n /\ n \notin Preload /\ dl[n] = 1

\* Libraries whose functions an entry or a pointer may keep.
Safe(n) == Home[n] \in Libs /\ (physical # "yes" \/ ~Shared(Home[n]))

LiveEntries(t, op) ==
  \A n \in Names : Safe(n) /\ t[n].module # "absent" => t[n].live /\ op[Home[n]] > 0

LivePointers(p, op) ==
  /\ p \in [Names -> [Names -> {"null", "set", "dangling"}]]
  /\ physical # "yes" => \A c, n \in Names :
       /\ p[c][n] # "dangling"
       /\ p[c][n] = "set" /\ Home[n] \in Libs => op[Home[n]] > 0

Reached(t, in) == \A n \in Names : in[n] => t[n].module \in {"own", "freed"}

Owned(t, mo) ==
  \A n \in Names : Kind[n] = "NORMAL" /\ t[n].live /\ t[n].module # "absent" =>
     t[n].module = IF mo[n] THEN "own" ELSE "none"

\* initialized and the module pointer of a program go together.
Statics(in, mo) ==
  /\ in \in [Names -> BOOLEAN] /\ mo \in [Names -> BOOLEAN]
  /\ \A n \in Names : mo[n] = (Plain(n) /\ in[n])

\* The stack: a program that is not RECURSIVE is on it once, and initialised.
StackTyped(s) == s \in Seq(Names) /\ Len(s) \in 1..MaxDepth
Once(s, in) ==
  /\ \A k \in DOMAIN s : Plain(s[k]) => in[s[k]]
  /\ \A i, k \in DOMAIN s : Plain(s[i]) /\ s[i] = s[k] => i = k

On(s, n) == \E k \in DOMAIN s : s[k] = n
Active(s, a) ==
  /\ a \in [Names -> {0, 1}]
  /\ \A n \in Names : a[n] = IF Plain(n) /\ On(s, n) THEN 1 ELSE 0

InLib(s, l) == {k \in DOMAIN s : Home[s[k]] = l}
Referenced(s, r) ==
  /\ r \in [Libs -> Nat]
  /\ \A l \in Libs : r[l] = IF Shared(l) THEN Cardinality(InLib(s, l)) ELSE 0

TableInv(t, op, dl, in, mo) ==
  /\ Typed(t) /\ Balanced(op, dl) /\ Closable(t, dl) /\ LiveEntries(t, op)
  /\ Reached(t, in) /\ Owned(t, mo)
StackInv(s, in, mo, a, r) ==
  StackTyped(s) /\ Statics(in, mo) /\ Once(s, in) /\ Active(s, a) /\ Referenced(s, r)

IInv ==
  /\ physical \in Settings /\ mode \in {"running", "stopped", "undefined"}
  /\ TableInv(table, opens, dynload, init, module)
  /\ StackInv(stack, init, module, active, refs)
  /\ LivePointers(ptr, opens)

-----------------------------------------------------------------------------
(* Entries of the call table. *)

\* An entry e that is given a module, or loses it.
LEMMA ModuleEntry ==
  ASSUME NEW e \in Entries, NEW md \in {"none", "own"}, NEW f \in 0..MaxDepth
  PROVE  LET g == [e EXCEPT !.module = md, !.frame = f] IN
         /\ g \in Entries /\ g.module = md
         /\ g.handle = e.handle /\ g.nocanc = e.nocanc /\ g.live = e.live
BY DEF Entries

\* insert makes an entry without a module.
LEMMA InsertedEntry ==
  ASSUME NEW h \in BOOLEAN, NEW c \in BOOLEAN
  PROVE  /\ Inserted(h, c) \in Entries /\ Inserted(h, c).module = "none"
         /\ Inserted(h, c).handle = h /\ Inserted(h, c).nocanc = c /\ Inserted(h, c).live
BY BoundsAssumption DEF Inserted, Entries

\* The entry that stands for none.
LEMMA NoEntryFacts ==
  NoEntry \in Entries /\ NoEntry.module = "absent" /\ ~NoEntry.handle /\ ~NoEntry.live
BY BoundsAssumption DEF NoEntry, Entries

\* An entry whose library has been closed.
LEMMA UnloadedEntry ==
  ASSUME NEW e \in Entries, NEW b \in BOOLEAN
  PROVE  LET g == [e EXCEPT !.live = @ /\ b] IN
         /\ g \in Entries /\ g.module = e.module
         /\ g.handle = e.handle /\ g.nocanc = e.nocanc /\ g.live = (e.live /\ b)
<1> DEFINE l == e.live /\ b
<1>1. l \in BOOLEAN
  BY Zenon DEF Entries
<1>2. e.live \in BOOLEAN
  BY DEF Entries
<1>3. [e EXCEPT !.live = @ /\ b] = [e EXCEPT !.live = l]
  BY DEF Entries
<1> HIDE DEF l
<1>4. /\ [e EXCEPT !.live = l] \in Entries /\ [e EXCEPT !.live = l].live = l
      /\ [e EXCEPT !.live = l].module = e.module /\ [e EXCEPT !.live = l].handle = e.handle
      /\ [e EXCEPT !.live = l].nocanc = e.nocanc
  BY <1>1 DEF Entries
<1> QED
  BY <1>3, <1>4 DEF l

\* The module that a RECURSIVE or INITIAL program frees at its exit.
LEMMA FreedEntry ==
  ASSUME NEW e \in Entries
  PROVE  LET g == [e EXCEPT !.module = "freed"] IN
         /\ g \in Entries /\ g.module = "freed"
         /\ g.handle = e.handle /\ g.nocanc = e.nocanc /\ g.live = e.live
BY DEF Entries

\* cob_set_cancel gives n the module of activation d and leaves the other entries alone.
LEMMA SetCancelFacts ==
  ASSUME NEW t, Typed(t), NEW n \in Names, NEW d \in 0..MaxDepth
  PROVE  LET u == SetCancel(t, n, d) IN
         /\ Typed(u) /\ u[n].module = "own"
         /\ \A m \in Names \ {n} : u[m] = t[m]
         /\ t[n].module = "absent" => ~u[n].handle /\ u[n].live
         /\ t[n].module # "absent" =>
              u[n].handle = t[n].handle /\ u[n].nocanc = t[n].nocanc /\ u[n].live = t[n].live
<1>1. PICK f \in 0..MaxDepth : f = IF Kind[n] = "RECURSIVE" THEN d ELSE 0
  BY BoundsAssumption
<1>2. PICK e \in Entries : e = IF t[n].module = "absent" THEN Inserted(FALSE, TRUE) ELSE t[n]
  BY InsertedEntry DEF Typed
<1>3. SetCancel(t, n, d) = [t EXCEPT ![n] = [e EXCEPT !.module = "own", !.frame = f]]
  BY <1>1, <1>2 DEF SetCancel
<1>4. PICK g \in Entries : g = [e EXCEPT !.module = "own", !.frame = f]
  BY ModuleEntry
<1>5. /\ g.module = "own" /\ g.handle = e.handle
      /\ g.nocanc = e.nocanc /\ g.live = e.live
  BY <1>4, ModuleEntry, ZenonT(60)
<1>6. SetCancel(t, n, d) = [t EXCEPT ![n] = g]
  BY <1>3, <1>4
<1>7. t[n].module = "absent" => ~e.handle /\ e.live
  BY <1>2, InsertedEntry
<1>8. t[n].module # "absent" => e = t[n]
  BY <1>2
<1> QED
  BY <1>5, <1>6, <1>7, <1>8 DEF Typed
-----------------------------------------------------------------------------
(* CALL: the name is resolved. *)

\* A library that is loaded once more is in both lists once more.
LEMMA LoadKeepsBalance ==
  ASSUME IInv, NEW n \in Libs, LoadFile(n)
  PROVE  Balanced(opens', dynload') /\ \A l \in Libs : opens'[l] >= opens[l]
<1>1. Balanced(opens, dynload)
  BY DEF IInv, TableInv
<1>2. /\ opens[n] \in 0..MaxOpens /\ opens[n] + 1 \in 0..MaxOpens
      /\ dynload[n] \in 0..MaxOpens /\ dynload[n] <= opens[n]
  BY <1>1, BoundsAssumption DEF Balanced, LoadFile
<1>3. dynload[n] + 1 \in 0..MaxOpens
  BY <1>2, BoundsAssumption
<1>4. /\ opens' = [opens EXCEPT ![n] = opens[n] + 1]
      /\ dynload' = [dynload EXCEPT ![n] = dynload[n] + 1]
  BY DEF LoadFile
<1>5. /\ opens' \in [Libs -> 0..MaxOpens] /\ dynload' \in [Libs -> 0..MaxOpens]
  BY <1>1, <1>2, <1>3, <1>4 DEF Balanced
<1>6. ASSUME NEW l \in Libs
      PROVE  opens'[l] = dynload'[l] + (IF l \in Preload THEN 1 ELSE 0) /\ opens'[l] >= opens[l]
  BY <1>1, <1>2, <1>4 DEF Balanced
<1> QED
  BY <1>5, <1>6 DEF Balanced

\* The entry of a program that is found in what is loaded.
LEMMA FoundKeeps ==
  ASSUME IInv, NEW n \in Names, ~InTable(n), Loaded(n)
  PROVE  TableInv([table EXCEPT ![n] = Inserted(TRUE, TRUE)], opens, dynload, init, module)
<1>1. PICK e \in Entries : e = Inserted(TRUE, TRUE)
  BY InsertedEntry
<1>2. e.module = "none" /\ e.handle /\ e.nocanc /\ e.live
  BY <1>1, InsertedEntry
<1>3. PICK t : t = [table EXCEPT ![n] = e]
  OBVIOUS
<1>4. TableInv(table, opens, dynload, init, module) /\ Statics(init, module)
  BY DEF IInv, StackInv
<1>5. Typed(t) /\ t[n] = e /\ \A m \in Names \ {n} : t[m] = table[m]
  BY <1>3, <1>4 DEF TableInv, Typed
<1>6. Closable(t, dynload)
  BY <1>2, <1>4, <1>5 DEF TableInv, Closable
<1>7. LiveEntries(t, opens)
  <2>1. Home[n] \in Libs => opens[Home[n]] > 0
    BY <1>4, NamesAssumption DEF Loaded, TableInv, Balanced
  <2> QED
    BY <1>2, <1>4, <1>5, <2>1 DEF TableInv, LiveEntries, Safe
<1>8. ~init[n] /\ ~module[n]
  BY <1>4 DEF TableInv, Reached, InTable, Statics
<1>9. Reached(t, init) /\ Owned(t, module)
  BY <1>2, <1>4, <1>5, <1>8 DEF TableInv, Reached, Owned
<1> QED
  BY <1>1, <1>3, <1>4, <1>5, <1>6, <1>7, <1>9 DEF TableInv

\* A file is loaded that does not hold the program of its name.
LEMMA LoadedInVain ==
  ASSUME IInv, NEW n \in Libs, ~InTable(n), LoadFile(n)
  PROVE  TableInv(table, opens', dynload', init, module)
<1>1. TableInv(table, opens, dynload, init, module) /\ n \in Names
  BY NamesAssumption DEF IInv
<1>2. Balanced(opens', dynload') /\ \A l \in Libs : opens'[l] >= opens[l]
  BY LoadKeepsBalance
<1>3. Closable(table, dynload')
  <2>1. \A l \in Libs \ {n} : dynload'[l] = dynload[l]
    BY <1>1 DEF LoadFile, TableInv, Balanced
  <2>2. ~table[n].handle
    BY <1>1 DEF TableInv, Closable, InTable
  <2> QED
    BY <1>1, <2>1, <2>2 DEF TableInv, Closable
<1>4. LiveEntries(table, opens')
  BY <1>1, <1>2 DEF TableInv, LiveEntries, Safe, Balanced
<1> QED
  BY <1>1, <1>2, <1>3, <1>4 DEF TableInv

\* A file is loaded that holds the program of its name.
LEMMA LoadedKeeps ==
  ASSUME IInv, NEW n \in Libs, ~InTable(n), ~Loaded(n), LoadFile(n), Home[n] = n
  PROVE  TableInv([table EXCEPT ![n] = Inserted(TRUE, FALSE)], opens', dynload', init, module)
<1>1. PICK e \in Entries : e = Inserted(TRUE, FALSE)
  BY InsertedEntry
<1>2. e.module = "none" /\ e.handle /\ ~e.nocanc /\ e.live
  BY <1>1, InsertedEntry
<1>3. PICK t : t = [table EXCEPT ![n] = e]
  OBVIOUS
<1>4. /\ TableInv(table, opens', dynload', init, module) /\ n \in Names
      /\ Balanced(opens, dynload) /\ Statics(init, module)
  BY LoadedInVain, NamesAssumption DEF IInv, StackInv, TableInv
<1>5. Typed(t) /\ t[n] = e /\ \A m \in Names \ {n} : t[m] = table[m]
  BY <1>3, <1>4 DEF TableInv, Typed
<1>6. n \notin Preload /\ dynload'[n] = 1
  BY <1>4 DEF Loaded, LoadFile, Balanced
<1>7. Closable(t, dynload')
  BY <1>2, <1>4, <1>5, <1>6 DEF TableInv, Closable
<1>8. LiveEntries(t, opens')
  <2>1. opens'[n] > 0
    BY <1>4, <1>6 DEF TableInv, Balanced
  <2> QED
    BY <1>2, <1>4, <1>5, <2>1 DEF TableInv, LiveEntries, Safe
<1>9. ~init[n] /\ ~module[n]
  BY <1>4 DEF TableInv, Reached, InTable, Statics
<1>10. Reached(t, init) /\ Owned(t, module)
  BY <1>2, <1>4, <1>5, <1>9 DEF TableInv, Reached, Owned
<1> QED
  BY <1>1, <1>3, <1>4, <1>5, <1>7, <1>8, <1>10 DEF TableInv

-----------------------------------------------------------------------------
(* CALL: the program is entered. *)

\* Initialisation makes the entry its program's own.
LEMMA EnterKeepsTable ==
  ASSUME NEW t, NEW op, NEW dl, TableInv(t, op, dl, init, module), Statics(init, module),
         NEW n \in Names, NEW d \in 0..MaxDepth,
         t[n].module = "absent" /\ Safe(n) => op[Home[n]] > 0
  PROVE  TableInv(IF init[n] THEN t ELSE SetCancel(t, n, d), op, dl,
                  [init EXCEPT ![n] = TRUE], [module EXCEPT ![n] = Kind[n] # "RECURSIVE"])
<1> PICK in : in = [init EXCEPT ![n] = TRUE]
  OBVIOUS
<1> PICK mo : mo = [module EXCEPT ![n] = Kind[n] # "RECURSIVE"]
  OBVIOUS
<1>1. /\ in[n] /\ \A m \in Names \ {n} : in[m] = init[m]
      /\ mo[n] = Plain(n) /\ \A m \in Names \ {n} : mo[m] = module[m]
  BY DEF Statics, Plain
<1>2. CASE init[n]
  <2>1. mo[n] = module[n]
    BY <1>1, <1>2 DEF Statics
  <2>2. Reached(t, in) /\ Owned(t, mo)
    BY <1>1, <1>2, <2>1 DEF TableInv, Reached, Owned
  <2> QED
    BY <1>2, <2>2 DEF TableInv
<1>3. CASE ~init[n]
  <2>1. PICK u : u = SetCancel(t, n, d)
    OBVIOUS
  <2>2. /\ Typed(u) /\ u[n].module = "own"
        /\ \A m \in Names \ {n} : u[m] = t[m]
        /\ t[n].module = "absent" => ~u[n].handle /\ u[n].live
        /\ t[n].module # "absent" =>
              u[n].handle = t[n].handle /\ u[n].nocanc = t[n].nocanc /\ u[n].live = t[n].live
    BY <2>1, SetCancelFacts DEF TableInv
  <2>3. Closable(u, dl)
    BY <2>2 DEF TableInv, Closable
  <2>4. LiveEntries(u, op)
    BY <2>2 DEF TableInv, LiveEntries
  <2>5. Reached(u, in)
    BY <1>1, <2>2 DEF TableInv, Reached
  <2>6. Owned(u, mo)
    BY <1>1, <2>2, ZenonT(60) DEF TableInv, Owned, Plain
  <2> QED
    BY <1>3, <2>1, <2>2, <2>3, <2>4, <2>5, <2>6 DEF TableInv
<1> QED
  BY <1>2, <1>3

\* A stack with n on top of it.
LEMMA Pushed ==
  ASSUME NEW s \in Seq(Names), NEW n \in Names
  PROVE  LET u == Append(s, n) IN
         /\ u \in Seq(Names) /\ Len(u) = Len(s) + 1
         /\ \A k \in DOMAIN s : k \in DOMAIN u /\ u[k] = s[k]
         /\ u[Len(s) + 1] = n /\ DOMAIN u = DOMAIN s \cup {Len(s) + 1}
         /\ Len(s) + 1 \notin DOMAIN s /\ Len(s) \in Nat
OBVIOUS
\* A program that is entered is not on the stack already, unless it is RECURSIVE.
LEMMA EnterKeepsStack ==
  ASSUME StackInv(stack, init, module, active, refs), NEW n \in Names, NEW t,
         Enter(n, t), ~(module[n] /\ OnStack(n)), Len(stack) < MaxDepth
  PROVE  StackInv(stack', init', module', active', refs')
<1> USE DEF StackInv
<1>0. stack \in Seq(Names)
  BY DEF StackTyped
<1>1. /\ stack' \in Seq(Names) /\ Len(stack') = Len(stack) + 1
      /\ \A k \in DOMAIN stack : k \in DOMAIN stack' /\ stack'[k] = stack[k]
      /\ stack'[Len(stack) + 1] = n /\ DOMAIN stack' = DOMAIN stack \cup {Len(stack) + 1}
      /\ Len(stack) + 1 \notin DOMAIN stack /\ Len(stack) \in Nat
  BY <1>0, Pushed DEF Enter
<1>2. /\ init' = [init EXCEPT ![n] = TRUE] /\ module' = [module EXCEPT ![n] = Kind[n] # "RECURSIVE"]
      /\ active' = IF Kind[n] = "RECURSIVE" THEN active ELSE [active EXCEPT ![n] = @ + 1]
      /\ refs' = IF Home[n] \in Libs /\ Shared(Home[n]) THEN [refs EXCEPT ![Home[n]] = @ + 1] ELSE refs
  BY DEF Enter
<1>3. StackTyped(stack')
  BY <1>1, BoundsAssumption DEF StackTyped
<1>4. Statics(init', module')
  <2>1. (Kind[n] # "RECURSIVE") \in BOOLEAN
    BY Zenon
  <2>2. init' \in [Names -> BOOLEAN] /\ module' \in [Names -> BOOLEAN]
    BY <1>2, <2>1 DEF Statics
  <2>3. init'[n] /\ module'[n] = Plain(n)
    BY <1>2 DEF Statics, Plain
  <2>4. \A m \in Names \ {n} : init'[m] = init[m] /\ module'[m] = module[m]
    BY <1>2 DEF Statics
  <2> QED
    BY <2>2, <2>3, <2>4 DEF Statics
<1>5. Plain(n) => ~On(stack, n)
  BY DEF Once, Statics, OnStack, On
<1>6. Once(stack', init')
  <2>1. \A k \in DOMAIN stack' : Plain(stack'[k]) => init'[stack'[k]]
    <3>1. \A m \in Names : init[m] => init'[m]
      BY <1>2 DEF Statics
    <3>2. init'[n]
      BY <1>2 DEF Statics
    <3>3. \A k \in DOMAIN stack : stack[k] \in Names
      BY <1>0
    <3> QED
      BY <1>1, <3>1, <3>2, <3>3 DEF Once
  <2>2. \A i, k \in DOMAIN stack' : Plain(stack'[i]) /\ stack'[i] = stack'[k] => i = k
    BY <1>1, <1>5 DEF Once, On
  <2> QED
    BY <2>1, <2>2 DEF Once
<1>7. Active(stack', active')
  <2>1. \A m \in Names \ {n} : On(stack', m) <=> On(stack, m)
    BY <1>1 DEF On
  <2>2. On(stack', n)
    BY <1>1 DEF On
  <2>3. CASE Plain(n)
    <3>1. active[n] = 0
      BY <1>5, <2>3 DEF Active
    <3>2. active' = [active EXCEPT ![n] = 1]
      BY <1>2, <2>3, <3>1 DEF Plain, Active
    <3> QED
      BY <2>1, <2>2, <2>3, <3>2 DEF Active
  <2>4. CASE ~Plain(n)
    BY <1>2, <2>1, <2>4 DEF Active, Plain
  <2> QED
    BY <2>3, <2>4
<1>8. Referenced(stack', refs')
  <2>1. \A l \in Libs : IsFiniteSet(InLib(stack, l))
    <3>1. IsFiniteSet(1..Len(stack))
      BY <1>1, FS_Interval
    <3> QED
      BY <1>0, <3>1, FS_Subset DEF InLib
  <2>2. \A l \in Libs : l # Home[n] => InLib(stack', l) = InLib(stack, l)
    BY <1>1 DEF InLib
  <2>3. InLib(stack', Home[n]) = InLib(stack, Home[n]) \cup {Len(stack) + 1}
    BY <1>1 DEF InLib
  <2>4. Len(stack) + 1 \notin InLib(stack, Home[n])
    BY <1>1 DEF InLib
  <2>5. Home[n] \in Libs =>
          Cardinality(InLib(stack', Home[n])) = Cardinality(InLib(stack, Home[n])) + 1
    BY <2>1, <2>3, <2>4, FS_AddElement
  <2>6. CASE Home[n] \in Libs /\ Shared(Home[n])
    <3>1. refs' = [refs EXCEPT ![Home[n]] = refs[Home[n]] + 1]
      BY <1>2, <2>6
    <3>2. refs[Home[n]] + 1 \in Nat /\ refs[Home[n]] = Cardinality(InLib(stack, Home[n]))
      BY <2>6 DEF Referenced
    <3>3. refs' \in [Libs -> Nat] /\ refs'[Home[n]] = Cardinality(InLib(stack', Home[n]))
      BY <2>5, <2>6, <3>1, <3>2 DEF Referenced
    <3>4. \A l \in Libs \ {Home[n]} : refs'[l] = refs[l]
      BY <3>1 DEF Referenced
    <3> QED
      BY <2>2, <2>6, <3>3, <3>4 DEF Referenced
  <2>7. CASE ~(Home[n] \in Libs /\ Shared(Home[n]))
    BY <1>2, <2>2, <2>7 DEF Referenced
  <2> QED
    BY <2>6, <2>7
<1> QED
  BY <1>3, <1>4, <1>6, <1>7, <1>8

-----------------------------------------------------------------------------
(* CALL. *)

\* What a jump does to table and stack, when the table is t by then.
LEMMA JumpKeeps ==
  ASSUME IInv, NEW n \in Names, NEW t, NEW op, NEW dl, NEW valid \in BOOLEAN, NEW onException \in BOOLEAN,
         TableInv(t, op, dl, init, module), Len(stack) < MaxDepth,
         valid /\ t[n].module = "absent" /\ Safe(n) => op[Home[n]] > 0,
         Jump(n, t, valid, onException)
  PROVE  /\ TableInv(table', op, dl, init', module')
         /\ StackInv(stack', init', module', active', refs')
         /\ mode' \in {"running", "stopped", "undefined"}
<1> USE DEF IInv
<1>1. CASE table' = t /\ UNCHANGED <<stack, progs>> /\ mode' \in {mode, "stopped", "undefined"}
  BY <1>1 DEF progs
<1>2. CASE valid /\ ~(module[n] /\ OnStack(n)) /\ Enter(n, t)
  <2>1. Len(stack) + 1 \in 0..MaxDepth
    BY BoundsAssumption DEF StackInv, StackTyped
  <2>2. /\ table' = IF init[n] THEN t ELSE SetCancel(t, n, Len(stack) + 1)
        /\ init' = [init EXCEPT ![n] = TRUE]
        /\ module' = [module EXCEPT ![n] = Kind[n] # "RECURSIVE"] /\ mode' = mode
    BY <1>2 DEF Enter
  <2>3. Statics(init, module)
    BY DEF StackInv
  <2>4. TableInv(IF init[n] THEN t ELSE SetCancel(t, n, Len(stack) + 1), op, dl,
                  [init EXCEPT ![n] = TRUE], [module EXCEPT ![n] = Kind[n] # "RECURSIVE"])
    BY <1>2, <2>1, <2>3, EnterKeepsTable
  <2>5. StackInv(stack', init', module', active', refs')
    BY <1>2, EnterKeepsStack
  <2> QED
    BY <2>2, <2>4, <2>5
<1> QED
  BY <1>1, <1>2 DEF Jump, Undefined, CallFails, Stop, progs
\* What is resolved through the call table.
LEMMA ResolveKeeps ==
  ASSUME IInv, NEW n \in Names, NEW onException \in BOOLEAN, Len(stack) < MaxDepth,
         ResolveAndJump(n, onException)
  PROVE  /\ TableInv(table', opens', dynload', init', module')
         /\ StackInv(stack', init', module', active', refs')
         /\ mode' \in {"running", "stopped", "undefined"}
         /\ \A l \in Libs : opens'[l] >= opens[l]
         /\ Resolvable(n) /\ Home[n] \in Libs /\ physical # "yes" => opens'[Home[n]] > 0
<1> USE DEF IInv
<1>1. /\ TableInv(table, opens, dynload, init, module)
      /\ \A l \in Libs : opens[l] \in 0..MaxOpens /\ dynload[l] \in 0..MaxOpens
  BY DEF TableInv, Balanced
<1>2. table[n].live \in BOOLEAN
  BY <1>1 DEF TableInv, Typed, Entries
<1>3. CASE InTable(n) /\ Jump(n, table, table[n].live, onException) /\ UNCHANGED libs
  <2>1. table[n].module # "absent"
    BY <1>3 DEF InTable
  <2>2. /\ TableInv(table', opens, dynload, init', module')
        /\ StackInv(stack', init', module', active', refs')
        /\ mode' \in {"running", "stopped", "undefined"}
    BY <1>1, <1>2, <1>3, <2>1, JumpKeeps
  <2>3. Home[n] \in Libs /\ physical # "yes" => opens[Home[n]] > 0
    BY <1>1, <2>1 DEF TableInv, LiveEntries, Safe
  <2> QED
    BY <1>1, <1>3, <2>2, <2>3 DEF libs
<1>4. CASE /\ ~InTable(n) /\ Loaded(n) /\ UNCHANGED libs
           /\ Jump(n, [table EXCEPT ![n] = Inserted(TRUE, TRUE)], TRUE, onException)
  <2>1. PICK t : t = [table EXCEPT ![n] = Inserted(TRUE, TRUE)]
    OBVIOUS
  <2>2. TableInv(t, opens, dynload, init, module) /\ t[n].module # "absent"
    BY <1>1, <1>4, <2>1, FoundKeeps, InsertedEntry DEF TableInv, Typed
  <2>3. Jump(n, t, TRUE, onException)
    BY <1>4, <2>1
  <2>4. /\ TableInv(table', opens, dynload, init', module')
        /\ StackInv(stack', init', module', active', refs')
        /\ mode' \in {"running", "stopped", "undefined"}
    BY <2>2, <2>3, JumpKeeps
  <2>5. Home[n] \in Libs => opens[Home[n]] > 0
    BY <1>1, <1>4, NamesAssumption DEF Loaded, TableInv, Balanced
  <2> QED
    BY <1>1, <1>4, <2>4, <2>5 DEF libs
<1>5. CASE /\ ~InTable(n) /\ ~Loaded(n) /\ n \in Libs /\ LoadFile(n) /\ Home[n] = n
           /\ Jump(n, [table EXCEPT ![n] = Inserted(TRUE, FALSE)], TRUE, onException)
  <2>1. PICK t : t = [table EXCEPT ![n] = Inserted(TRUE, FALSE)]
    OBVIOUS
  <2>2. PICK op, dl : op = opens' /\ dl = dynload'
    OBVIOUS
  <2>3. TableInv(t, op, dl, init, module) /\ t[n].module # "absent"
    BY <1>1, <1>5, <2>1, <2>2, LoadedKeeps, InsertedEntry DEF TableInv, Typed
  <2>4. Jump(n, t, TRUE, onException)
    BY <1>5, <2>1
  <2>5. /\ TableInv(table', op, dl, init', module')
        /\ StackInv(stack', init', module', active', refs')
        /\ mode' \in {"running", "stopped", "undefined"}
    BY <2>3, <2>4, JumpKeeps
  <2>6. \A l \in Libs : opens'[l] >= opens[l]
    BY <1>5, LoadKeepsBalance
  <2>7. opens'[n] > 0
    BY <1>1, <1>5 DEF LoadFile, TableInv, Balanced
  <2> QED
    BY <1>5, <2>2, <2>5, <2>6, <2>7
<1>6. CASE /\ ~InTable(n) /\ ~Loaded(n) /\ n \in Libs /\ LoadFile(n) /\ Home[n] # n
           /\ CallFails(onException) /\ table' = table
  <2>1. TableInv(table, opens', dynload', init, module) /\ \A l \in Libs : opens'[l] >= opens[l]
    BY <1>6, LoadedInVain, LoadKeepsBalance
  <2>2. ~Resolvable(n)
    BY <1>6 DEF Resolvable
  <2> QED
    BY <1>6, <2>1, <2>2 DEF CallFails, Stop, progs
<1>7. CASE /\ ~InTable(n) /\ ~Loaded(n) /\ n \notin Libs
           /\ CallFails(onException) /\ UNCHANGED <<table, libs>>
  <2>1. ~Resolvable(n)
    BY <1>7 DEF Resolvable
  <2> QED
    BY <1>1, <1>7, <2>1 DEF CallFails, Stop, progs, libs
<1> QED
  BY <1>3, <1>4, <1>5, <1>6, <1>7 DEF ResolveAndJump

\* The running program is a program.
LEMMA TopFacts ==
  ASSUME StackTyped(stack)
  PROVE  Top \in Names /\ Len(stack) \in DOMAIN stack
BY DEF StackTyped, Top

\* A CALL, whether it goes through the call table or through the program's own pointer.
LEMMA CallStep ==
  ASSUME IInv, NEW n \in Names, NEW literal \in BOOLEAN, NEW onException \in BOOLEAN,
         Call(n, literal, onException)
  PROVE  IInv'
<1> USE DEF IInv
<1>1. Len(stack) < MaxDepth /\ physical' = physical
  BY DEF Call
<1>2. Top \in Names
  BY TopFacts DEF StackInv
<1>3. LivePointers(ptr, opens)
  OBVIOUS
<1>4. CASE /\ literal /\ KeepsPointer(n) /\ UNCHANGED <<libs, ptr>>
           /\ Jump(n, table, ptr[Top][n] = "set", onException)
  <2>1. PICK valid \in BOOLEAN : valid = (ptr[Top][n] = "set")
    BY Zenon
  <2>2. valid /\ Safe(n) => opens[Home[n]] > 0
    BY <1>2, <1>3, <1>4, <2>1 DEF KeepsPointer, LivePointers, Safe
  <2>3. Jump(n, table, valid, onException)
    BY <1>4, <2>1
  <2>4. /\ TableInv(table', opens, dynload, init', module')
        /\ StackInv(stack', init', module', active', refs')
        /\ mode' \in {"running", "stopped", "undefined"}
    BY <1>1, <2>2, <2>3, JumpKeeps
  <2>5. opens' = opens /\ dynload' = dynload /\ ptr' = ptr
    BY <1>4 DEF libs
  <2>6. LivePointers(ptr, opens)'
    BY <1>1, <1>3, <2>5 DEF LivePointers
  <2>7. TableInv(table, opens, dynload, init, module)'
    BY <1>1, <2>4, <2>5 DEF TableInv, Typed, Balanced, Closable, LiveEntries, Safe, Reached, Owned
  <2> QED
    BY <1>1, <2>4, <2>6, <2>7 DEF StackInv, StackTyped, Statics, Once, Active, Referenced, On, InLib
<1>5. CASE /\ ~(literal /\ KeepsPointer(n)) /\ ResolveAndJump(n, onException)
           /\ ptr' = IF ~literal THEN ptr
                     ELSE [ptr EXCEPT ![Top][n] = IF Resolvable(n) THEN "set" ELSE "null"]
  <2>1. /\ TableInv(table', opens', dynload', init', module')
        /\ StackInv(stack', init', module', active', refs')
        /\ mode' \in {"running", "stopped", "undefined"}
        /\ \A l \in Libs : opens'[l] >= opens[l]
        /\ Resolvable(n) /\ Home[n] \in Libs /\ physical # "yes" => opens'[Home[n]] > 0
    BY <1>1, <1>5, ResolveKeeps
  <2>2. /\ \A l \in Libs : opens[l] \in Nat
        /\ \A l \in Libs : opens'[l] \in Nat
    BY <2>1 DEF TableInv, Balanced
  <2>3. LivePointers(ptr', opens')
    <3>1. PICK v \in {"set", "null"} : v = IF Resolvable(n) THEN "set" ELSE "null"
      OBVIOUS
    <3>2. ptr' = ptr \/ ptr' = [ptr EXCEPT ![Top][n] = v]
      BY <1>5, <3>1
    <3>3. ptr' \in [Names -> [Names -> {"null", "set", "dangling"}]]
      BY <1>2, <1>3, <3>2 DEF LivePointers
    <3>4. ASSUME NEW c \in Names, NEW m \in Names
          PROVE  ptr'[c][m] = ptr[c][m] \/ (c = Top /\ m = n /\ ptr'[c][m] = v)
      BY <1>2, <1>3, <3>2 DEF LivePointers
    <3>5. ASSUME physical # "yes", NEW c \in Names, NEW m \in Names
          PROVE  /\ ptr'[c][m] # "dangling"
                 /\ ptr'[c][m] = "set" /\ Home[m] \in Libs => opens'[Home[m]] > 0
      <4>1. CASE ptr'[c][m] = ptr[c][m]
        BY <1>3, <2>1, <2>2, <3>5, <4>1 DEF LivePointers
      <4>2. CASE m = n /\ ptr'[c][m] = v
        BY <2>1, <3>1, <3>5, <4>2
      <4> QED
        BY <3>4, <4>1, <4>2
    <3> QED
      BY <3>3, <3>5 DEF LivePointers
  <2>4. LivePointers(ptr, opens)'
    BY <1>1, <2>3 DEF LivePointers
  <2>5. TableInv(table, opens, dynload, init, module)'
    BY <1>1, <2>1 DEF TableInv, Typed, Balanced, Closable, LiveEntries, Safe, Reached, Owned
  <2> QED
    BY <1>1, <2>1, <2>4, <2>5 DEF StackInv, StackTyped, Statics, Once, Active, Referenced, On, InLib
<1> QED
  BY <1>4, <1>5 DEF Call
-----------------------------------------------------------------------------
(* The exit of a program. *)

\* A stack without its top.
LEMMA Popped ==
  ASSUME NEW s \in Seq(Names), Len(s) > 1
  PROVE  LET u == SubSeq(s, 1, Len(s) - 1) IN
         /\ u \in Seq(Names) /\ Len(u) = Len(s) - 1
         /\ \A k \in DOMAIN u : k \in DOMAIN s /\ u[k] = s[k]
         /\ DOMAIN u = DOMAIN s \ {Len(s)} /\ Len(s) \in DOMAIN s
OBVIOUS

\* The exit gives back what the entry took.
LEMMA ReturnKeepsStack ==
  ASSUME StackInv(stack, init, module, active, refs), Return
  PROVE  StackInv(stack', init', module', active', refs')
<1> USE DEF StackInv
<1>0. stack \in Seq(Names) /\ Len(stack) > 1
  BY DEF StackTyped, Return
<1> PICK n : n = Top
  OBVIOUS
<1>1. /\ stack' \in Seq(Names) /\ Len(stack') = Len(stack) - 1
      /\ \A k \in DOMAIN stack' : k \in DOMAIN stack /\ stack'[k] = stack[k]
      /\ DOMAIN stack' = DOMAIN stack \ {Len(stack)} /\ Len(stack) \in DOMAIN stack
  BY <1>0, Popped DEF Return
<1>2. /\ n \in Names /\ stack[Len(stack)] = n
      /\ active' = IF active[n] > 0 THEN [active EXCEPT ![n] = @ - 1] ELSE active
      /\ refs' = IF Home[n] \in Libs /\ Shared(Home[n]) /\ refs[Home[n]] > 0
                 THEN [refs EXCEPT ![Home[n]] = @ - 1] ELSE refs
      /\ init' = IF Kind[n] = "INITIAL" THEN [init EXCEPT ![n] = FALSE] ELSE init
      /\ module' = IF Kind[n] = "INITIAL" THEN [module EXCEPT ![n] = FALSE] ELSE module
  BY TopFacts DEF Return, Top
<1>3. StackTyped(stack')
  BY <1>0, <1>1, BoundsAssumption DEF StackTyped
<1>4. Statics(init', module')
  BY <1>2, FALSE \in BOOLEAN DEF Statics
<1>5. Plain(n) => ~On(stack', n)
  BY <1>1, <1>2 DEF Once, On
<1>6. Once(stack', init')
  <2>1. \A k \in DOMAIN stack' : stack'[k] \in Names
    BY <1>1
  <2>2. ASSUME NEW k \in DOMAIN stack', Plain(stack'[k])
        PROVE  init'[stack'[k]]
    <3>1. stack'[k] # n /\ init[stack'[k]]
      BY <1>1, <1>5, <2>2 DEF Once, On
    <3> QED
      BY <1>2, <2>1, <3>1 DEF Statics
  <2> QED
    BY <1>1, <2>2 DEF Once
<1>7. Active(stack', active')
  <2>1. \A m \in Names \ {n} : On(stack', m) <=> On(stack, m)
    BY <1>1, <1>2 DEF On
  <2>2. On(stack, n)
    BY <1>1, <1>2 DEF On
  <2>3. CASE Plain(n)
    <3>1. active[n] = 1
      BY <1>2, <2>2, <2>3 DEF Active
    <3>2. active' = [active EXCEPT ![n] = 0]
      BY <1>2, <3>1
    <3> QED
      BY <1>5, <2>1, <2>3, <3>2 DEF Active
  <2>4. CASE ~Plain(n)
    BY <1>2, <2>1, <2>4 DEF Active
  <2> QED
    BY <2>3, <2>4
<1>8. Referenced(stack', refs')
  <2>1. \A l \in Libs : IsFiniteSet(InLib(stack, l))
    <3>1. IsFiniteSet(1..Len(stack))
      BY <1>0, FS_Interval
    <3> QED
      BY <1>0, <3>1, FS_Subset DEF InLib
  <2>2. \A l \in Libs : l # Home[n] => InLib(stack', l) = InLib(stack, l)
    BY <1>1, <1>2 DEF InLib
  <2>3. /\ InLib(stack', Home[n]) = InLib(stack, Home[n]) \ {Len(stack)}
        /\ Len(stack) \in InLib(stack, Home[n])
    BY <1>1, <1>2 DEF InLib
  <2>4. Home[n] \in Libs =>
          /\ Cardinality(InLib(stack', Home[n])) = Cardinality(InLib(stack, Home[n])) - 1
          /\ Cardinality(InLib(stack, Home[n])) \in Nat /\ Cardinality(InLib(stack', Home[n])) \in Nat
    BY <2>1, <2>3, FS_RemoveElement, FS_CardinalityType
  <2>5. CASE Home[n] \in Libs /\ Shared(Home[n])
    <3>1. refs[Home[n]] = Cardinality(InLib(stack, Home[n])) /\ refs[Home[n]] > 0
      BY <2>4, <2>5 DEF Referenced
    <3>2. refs' = [refs EXCEPT ![Home[n]] = refs[Home[n]] - 1]
      BY <1>2, <2>5, <3>1
    <3>3. refs' \in [Libs -> Nat] /\ refs'[Home[n]] = Cardinality(InLib(stack', Home[n]))
      BY <2>4, <2>5, <3>1, <3>2 DEF Referenced
    <3>4. \A l \in Libs \ {Home[n]} : refs'[l] = refs[l]
      BY <3>2 DEF Referenced
    <3> QED
      BY <2>2, <2>5, <3>3, <3>4 DEF Referenced
  <2>6. CASE ~(Home[n] \in Libs /\ Shared(Home[n]))
    BY <1>2, <2>2, <2>6 DEF Referenced
  <2> QED
    BY <2>5, <2>6
<1> QED
  BY <1>3, <1>4, <1>6, <1>7, <1>8

\* The entry of a RECURSIVE or INITIAL program is left with a freed module.
LEMMA ReturnKeepsTable ==
  ASSUME TableInv(table, opens, dynload, init, module), Statics(init, module),
         StackTyped(stack), Return
  PROVE  TableInv(table', opens', dynload', init', module')
<1> PICK n : n = Top
  OBVIOUS
<1>1. /\ n \in Names /\ opens' = opens /\ dynload' = dynload
      /\ table' = IF ModuleFreedAtExit(n) THEN [table EXCEPT ![n].module = "freed"] ELSE table
      /\ init' = IF Kind[n] = "INITIAL" THEN [init EXCEPT ![n] = FALSE] ELSE init
      /\ module' = IF Kind[n] = "INITIAL" THEN [module EXCEPT ![n] = FALSE] ELSE module
  BY TopFacts DEF Return, libs
<1>2. table[n] \in Entries
  BY <1>1 DEF TableInv, Typed
<1>3. PICK e \in Entries : e = [table[n] EXCEPT !.module = "freed"]
  BY <1>2, FreedEntry
<1>4. /\ e.module = "freed" /\ e.handle = table[n].handle
      /\ e.nocanc = table[n].nocanc /\ e.live = table[n].live
  BY <1>2, <1>3, FreedEntry
<1>5. [table EXCEPT ![n].module = "freed"] = [table EXCEPT ![n] = e]
  BY <1>1, <1>3 DEF TableInv, Typed
<1>6. ModuleFreedAtExit(n) => table[n].module = "own" /\ Kind[n] # "NORMAL"
  BY DEF ModuleFreedAtExit
<1>7. /\ Typed(table') /\ \A m \in Names \ {n} : table'[m] = table[m]
      /\ \/ table'[n] = table[n]
         \/ table'[n] = e /\ table[n].module = "own" /\ Kind[n] # "NORMAL"
  BY <1>1, <1>5, <1>6 DEF TableInv, Typed
<1>8. Closable(table', dynload)
  BY <1>4, <1>7 DEF TableInv, Closable
<1>9. LiveEntries(table', opens)
  BY <1>4, <1>7 DEF TableInv, LiveEntries
<1>10. /\ \A m \in Names : init'[m] => init[m]
       /\ \A m \in Names : Kind[m] = "NORMAL" => module'[m] = module[m]
  BY <1>1 DEF Statics
<1>11. Reached(table', init')
  BY <1>4, <1>7, <1>10 DEF TableInv, Reached
<1>12. Owned(table', module')
  BY <1>4, <1>7, <1>10 DEF TableInv, Owned
<1> QED
  BY <1>1, <1>7, <1>8, <1>9, <1>11, <1>12 DEF TableInv

\* GOBACK and EXIT PROGRAM keep the invariant.
LEMMA ReturnStep ==
  ASSUME IInv, Return
  PROVE  IInv'
<1> USE DEF IInv
<1>1. /\ TableInv(table', opens', dynload', init', module')
      /\ StackInv(stack', init', module', active', refs')
  BY ReturnKeepsTable, ReturnKeepsStack DEF StackInv
<1>2. physical' = physical /\ mode' = mode /\ opens' = opens
  BY DEF Return, libs
<1>3. LivePointers(ptr', opens)
  <2>1. Top \in Names
    BY TopFacts DEF StackInv
  <2>2. NoPointers \in [Names -> {"null", "set", "dangling"}] /\ \A m \in Names : NoPointers[m] = "null"
    BY DEF NoPointers
  <2>3. ptr' = ptr \/ ptr' = [ptr EXCEPT ![Top] = NoPointers]
    BY DEF Return
  <2> QED
    BY <2>1, <2>2, <2>3 DEF LivePointers
<1>4. LivePointers(ptr, opens)'
  BY <1>2, <1>3 DEF LivePointers
<1>5. TableInv(table, opens, dynload, init, module)'
  BY <1>1, <1>2 DEF TableInv, Typed, Balanced, Closable, LiveEntries, Safe, Reached, Owned
<1> QED
  BY <1>1, <1>2, <1>4, <1>5 DEF StackInv, StackTyped, Statics, Once, Active, Referenced, On, InLib
-----------------------------------------------------------------------------
(* CANCEL. *)

\* Two programs of one library share it.
LEMMA SharedByTwo ==
  ASSUME NEW n \in Names, NEW p \in Names, p # n, Home[p] = Home[n]
  PROVE  Shared(Home[n])
<1> PICK S : S = Of(Home[n])
  OBVIOUS
<1>1. IsFiniteSet(S) /\ n \in S /\ p \in S
  BY NamesAssumption, FS_Subset DEF Of
<1>2. IsFiniteSet(S \ {p}) /\ Cardinality(S \ {p}) = Cardinality(S) - 1
  BY <1>1, FS_RemoveElement
<1>3. Cardinality(S \ {p}) # 0
  BY <1>1, <1>2, FS_EmptySet
<1>4. Cardinality(S) > 1
  BY <1>1, <1>2, <1>3, FS_CardinalityType
<1> QED
  BY <1>4 DEF Shared

\* Only the entry of the library's own name closes it, and it is open once then.
LEMMA UnlinksFacts ==
  ASSUME IInv, NEW n \in Names, Unlinks(n)
  PROVE  /\ n \in Libs /\ Home[n] = n /\ n \notin Preload
         /\ dynload[n] = 1 /\ opens[n] = 1 /\ refs[n] = 0
<1>1. Closable(table, dynload) /\ Balanced(opens, dynload) /\ Referenced(stack, refs)
  BY DEF IInv, TableInv, StackInv
<1>2. n \in Libs /\ Home[n] = n /\ n \notin Preload /\ dynload[n] = 1
  BY <1>1 DEF Unlinks, Closable
<1>3. opens[n] = 1
  BY <1>1, <1>2 DEF Balanced
<1>4. refs[n] = 0
  BY <1>1, <1>2 DEF Unlinks, Referenced
<1> QED
  BY <1>2, <1>3, <1>4

Gone(n) == IF Closes(n) THEN Of(Home[n]) ELSE {}
Reset(n) == Gone(n) \cup (IF init[n] THEN {n} ELSE {})

\* CANCEL resets no program that is on the stack, unless it is RECURSIVE.
LEMMA ResetIsIdle ==
  ASSUME IInv, NEW n \in Names, ~CancelFatal(n), NEW p \in Reset(n), Plain(p)
  PROVE  p \in Names /\ ~On(stack, p)
<1> USE DEF IInv, StackInv
<1>1. p \in Names
  BY DEF Reset, Gone, Of
<1>2. ASSUME On(stack, p) PROVE FALSE
  <2>1. init[p] /\ module[p] /\ active[p] = 1
    BY <1>1, <1>2 DEF Once, On, Statics, Active
  <2>2. p # n
    BY <2>1 DEF CancelFatal
  <2>3. Closes(n) /\ Home[p] = Home[n]
    BY <2>2 DEF Reset, Gone, Of
  <2>4. n \in Libs /\ Home[n] = n /\ refs[n] = 0
    BY <2>3, UnlinksFacts DEF Closes
  <2>5. Cardinality(InLib(stack, n)) = 0
    BY <1>1, <2>2, <2>3, <2>4, SharedByTwo DEF Referenced
  <2>6. IsFiniteSet(InLib(stack, n))
    <3>1. IsFiniteSet(1..Len(stack))
      BY FS_Interval DEF StackTyped
    <3> QED
      BY <3>1, FS_Subset DEF InLib, StackTyped
  <2>7. InLib(stack, n) = {}
    BY <2>5, <2>6, FS_EmptySet
  <2> QED
    BY <1>2, <2>3, <2>4, <2>7 DEF InLib, On
<1> QED
  BY <1>1, <1>2

\* What CANCEL leaves, said name by name.
LEMMA CancelledFacts ==
  ASSUME IInv, NEW n \in Names, Cancelled(n)
  PROVE  /\ init' = [p \in Names |-> init[p] /\ p \notin Reset(n)]
         /\ module' = [p \in Names |-> module[p] /\ p \notin Reset(n)]
         /\ active' = [p \in Names |-> IF p \in Reset(n) THEN 0 ELSE active[p]]
         /\ ptr' = [c \in Names |->
                     IF c \in Reset(n) THEN NoPointers
                     ELSE [p \in Names |-> IF p \in Gone(n) /\ ptr[c][p] = "set" THEN "dangling" ELSE ptr[c][p]]]
         /\ table' = [p \in Names |->
                       CASE p = n /\ Unlinks(n) -> NoEntry
                         [] p = n /\ ~Unlinks(n) -> EntryAfterCancel(p)
                         [] OTHER -> [table[p] EXCEPT !.live = @ /\ p \notin Gone(n)]]
         /\ opens' = IF Closes(n) THEN [opens EXCEPT ![Home[n]] = @ - 1] ELSE opens
         /\ dynload' = IF Closes(n) THEN [dynload EXCEPT ![Home[n]] = 0] ELSE dynload
         /\ mode' = IF \E p \in Gone(n) : OnStack(p) THEN "undefined" ELSE mode
         /\ stack' = stack /\ refs' = refs
<1>1. Gone(n) = IF Closes(n) /\ opens[Home[n]] = 1 THEN Of(Home[n]) ELSE {}
  BY UnlinksFacts DEF Closes, Gone
<1> PICK gone : gone = Gone(n)
  OBVIOUS
<1> QED
  BY <1>1 DEF Cancelled, Reset

\* The call table after CANCEL.
LEMMA CancelledTable ==
  ASSUME IInv, NEW n \in Names, Cancelled(n)
  PROVE  /\ Typed(table')
         /\ Unlinks(n) => table'[n] = NoEntry
         /\ ~Unlinks(n) => /\ table'[n].module = "none" /\ table'[n].handle = table[n].handle
                           /\ table'[n].nocanc = table[n].nocanc /\ table'[n].live = table[n].live
         /\ \A p \in Names \ {n} :
              /\ table'[p].module = table[p].module /\ table'[p].handle = table[p].handle
              /\ table'[p].nocanc = table[p].nocanc
              /\ table'[p].live = (table[p].live /\ p \notin Gone(n))
<1>1. table' = [p \in Names |->
                 CASE p = n /\ Unlinks(n) -> NoEntry
                   [] p = n /\ ~Unlinks(n) -> EntryAfterCancel(p)
                   [] OTHER -> [table[p] EXCEPT !.live = @ /\ p \notin Gone(n)]]
  BY CancelledFacts
<1>2. \A p \in Names : table[p] \in Entries
  BY DEF IInv, TableInv, Typed
<1>3. Unlinks(n) => table'[n] = NoEntry
  BY <1>1
<1>4. /\ EntryAfterCancel(n) \in Entries /\ EntryAfterCancel(n).module = "none"
      /\ EntryAfterCancel(n).handle = table[n].handle
      /\ EntryAfterCancel(n).nocanc = table[n].nocanc /\ EntryAfterCancel(n).live = table[n].live
  <2>1. 0 \in 0..MaxDepth
    BY BoundsAssumption
  <2> QED
    BY <1>2, <2>1, ModuleEntry DEF EntryAfterCancel
<1>5. ~Unlinks(n) => table'[n] = EntryAfterCancel(n)
  BY <1>1
<1>6. ASSUME NEW p \in Names \ {n}
      PROVE  /\ table'[p] \in Entries
             /\ table'[p].module = table[p].module /\ table'[p].handle = table[p].handle
             /\ table'[p].nocanc = table[p].nocanc
             /\ table'[p].live = (table[p].live /\ p \notin Gone(n))
  <2>1. table'[p] = [table[p] EXCEPT !.live = @ /\ p \notin Gone(n)]
    BY <1>1
  <2>2. (p \notin Gone(n)) \in BOOLEAN
    BY Zenon
  <2> QED
    BY <1>2, <2>1, <2>2, UnloadedEntry, ZenonT(60)
<1>7. \A p \in Names : table'[p] \in Entries
  BY <1>3, <1>4, <1>5, <1>6, NoEntryFacts
<1>8. Typed(table')
  <2>1. table' = [p \in Names |-> table'[p]]
    BY <1>1
  <2> QED
    BY <1>7, <2>1 DEF Typed
<1> QED
  BY <1>3, <1>4, <1>5, <1>6, <1>8

\* CANCEL leaves the counters of what is on the stack.
LEMMA CancelledKeepsStack ==
  ASSUME IInv, NEW n \in Names, ~CancelFatal(n), Cancelled(n)
  PROVE  StackInv(stack', init', module', active', refs')
<1> USE DEF IInv, StackInv
<1>1. /\ init' = [p \in Names |-> init[p] /\ p \notin Reset(n)]
      /\ module' = [p \in Names |-> module[p] /\ p \notin Reset(n)]
      /\ active' = [p \in Names |-> IF p \in Reset(n) THEN 0 ELSE active[p]]
      /\ stack' = stack /\ refs' = refs
  BY CancelledFacts
<1>2. Statics(init', module')
  <2>1. \A p \in Names : /\ (init[p] /\ p \notin Reset(n)) \in BOOLEAN
                         /\ (module[p] /\ p \notin Reset(n)) \in BOOLEAN
    BY Zenon
  <2>2. init' \in [Names -> BOOLEAN] /\ module' \in [Names -> BOOLEAN]
    BY <1>1, <2>1
  <2>3. \A p \in Names : module'[p] = (Plain(p) /\ init'[p])
    BY <1>1 DEF Statics
  <2> QED
    BY <2>2, <2>3 DEF Statics
<1>3. \A p \in Names : Plain(p) /\ On(stack, p) => p \notin Reset(n)
  BY ResetIsIdle
<1>4. Once(stack', init')
  <2>1. \A k \in DOMAIN stack : stack[k] \in Names /\ On(stack, stack[k])
    BY DEF StackTyped, On
  <2> QED
    BY <1>1, <1>3, <2>1 DEF Once
<1>5. Active(stack', active')
  <2>1. \A p \in Names : active[p] \in {0, 1} /\ (p \in Reset(n) => active[p] = 0)
    BY <1>3 DEF Active
  <2>2. active' = [p \in Names |-> active[p]]
    BY <1>1, <2>1
  <2> QED
    BY <1>1, <2>1, <2>2 DEF Active
<1> QED
  BY <1>1, <1>2, <1>4, <1>5 DEF StackTyped, Referenced, InLib

\* CANCEL leaves no entry that may close a library it does not hold.
LEMMA CancelledKeepsTable ==
  ASSUME IInv, NEW n \in Names, InTable(n), Cancelled(n)
  PROVE  TableInv(table', opens', dynload', init', module')
<1> USE DEF IInv
<1>1. /\ Typed(table')
      /\ Unlinks(n) => table'[n] = NoEntry
      /\ ~Unlinks(n) => /\ table'[n].module = "none" /\ table'[n].handle = table[n].handle
                        /\ table'[n].nocanc = table[n].nocanc /\ table'[n].live = table[n].live
      /\ \A p \in Names \ {n} :
           /\ table'[p].module = table[p].module /\ table'[p].handle = table[p].handle
           /\ table'[p].nocanc = table[p].nocanc
           /\ table'[p].live = (table[p].live /\ p \notin Gone(n))
  BY CancelledTable
<1>2. /\ \A p \in Names : init'[p] = (init[p] /\ p \notin Reset(n))
      /\ \A p \in Names : module'[p] = (module[p] /\ p \notin Reset(n))
      /\ opens' = IF Closes(n) THEN [opens EXCEPT ![Home[n]] = @ - 1] ELSE opens
      /\ dynload' = IF Closes(n) THEN [dynload EXCEPT ![Home[n]] = 0] ELSE dynload
  BY CancelledFacts
<1>3. /\ Closes(n) => Unlinks(n) /\ physical = "yes"
      /\ Unlinks(n) => n \in Libs /\ Home[n] = n /\ n \notin Preload /\ dynload[n] = 1 /\ opens[n] = 1
  BY UnlinksFacts DEF Closes
<1>4. NoEntry.module = "absent" /\ ~NoEntry.handle /\ ~NoEntry.live
  BY NoEntryFacts
<1>5. Balanced(opens, dynload) /\ Closable(table, dynload) /\ LiveEntries(table, opens)
      /\ Reached(table, init) /\ Owned(table, module) /\ Statics(init, module)
  BY DEF TableInv, StackInv
<1>6. Balanced(opens', dynload')
  <2>1. CASE Closes(n)
    <3>1. opens' = [opens EXCEPT ![n] = 0] /\ dynload' = [dynload EXCEPT ![n] = 0]
      <4>1. Home[n] = n /\ opens[n] - 1 = 0
        BY <1>3, <2>1
      <4>2. opens' = [opens EXCEPT ![n] = opens[n] - 1] /\ dynload' = [dynload EXCEPT ![n] = 0]
        BY <1>2, <2>1, <4>1
      <4> QED
        BY <4>1, <4>2
    <3>2. 0 \in 0..MaxOpens
      BY BoundsAssumption
    <3> QED
      BY <1>3, <1>5, <2>1, <3>1, <3>2 DEF Balanced
  <2>2. CASE ~Closes(n)
    BY <1>2, <1>5, <2>2
  <2> QED
    BY <2>1, <2>2
<1>7. \A l \in Libs \ {Home[n]} : opens'[l] = opens[l] /\ dynload'[l] = dynload[l]
  BY <1>2, <1>5 DEF Balanced
<1>8. Closable(table', dynload')
  <2>1. ASSUME NEW m \in Names, table'[m].handle
        PROVE  table'[m].module # "absent"
    BY <1>1, <1>4, <1>5, <2>1 DEF Closable
  <2>2. ASSUME NEW m \in Names, table'[m].handle, ~table'[m].nocanc
        PROVE  m \in Libs /\ Home[m] = m /\ m \notin Preload /\ dynload'[m] = 1
    <3>1. /\ ~(m = n /\ Unlinks(n)) /\ table[m].handle /\ ~table[m].nocanc
          /\ m \in Libs /\ Home[m] = m /\ m \notin Preload /\ dynload[m] = 1
      BY <1>1, <1>4, <1>5, <2>2 DEF Closable
    <3>2. CASE Closes(n)
      BY <1>3, <1>7, <3>1, <3>2
    <3>3. CASE ~Closes(n)
      BY <1>2, <3>1, <3>3
    <3> QED
      BY <3>1, <3>2, <3>3
  <2> QED
    BY <2>1, <2>2 DEF Closable
<1>9. LiveEntries(table', opens')
  <2>1. ASSUME NEW m \in Names, Safe(m), table'[m].module # "absent"
        PROVE  table'[m].live /\ opens'[Home[m]] > 0
    <3>1. ~(m = n /\ Unlinks(n)) /\ (m # n => table[m].module # "absent")
      BY <1>1, <1>4, <2>1
    <3>2. CASE Closes(n)
      <4>1. m # n /\ ~Shared(Home[m])
        BY <1>3, <2>1, <3>1, <3>2 DEF Safe
      <4>2. Home[m] # Home[n]
        BY <4>1, SharedByTwo
      <4>3. m \notin Gone(n)
        BY <4>2 DEF Gone, Of
      <4>4. table[m].live /\ opens[Home[m]] > 0 /\ Home[m] \in Libs
        BY <1>5, <2>1, <3>1, <4>1 DEF LiveEntries, Safe
      <4> QED
        BY <1>1, <1>7, <4>1, <4>2, <4>3, <4>4
    <3>3. CASE ~Closes(n) /\ table[m].module # "absent"
      <4>1. table[m].live /\ opens'[Home[m]] > 0
        BY <1>2, <1>5, <2>1, <3>3 DEF LiveEntries
      <4>2. m \notin Gone(n)
        BY <3>3 DEF Gone
      <4> QED
        BY <1>1, <3>1, <4>1, <4>2
    <3> QED
      BY <3>1, <3>2, <3>3 DEF InTable
  <2> QED
    BY <2>1 DEF LiveEntries
<1>10. Reached(table', init')
  <2>1. ~init'[n]
    BY <1>2 DEF Reset
  <2> QED
    BY <1>1, <1>2, <1>5, <2>1 DEF Reached
<1>11. Owned(table', module')
  <2>1. ~module'[n]
    BY <1>2, <1>5 DEF Reset, Statics
  <2>2. ASSUME NEW m \in Names \ {n}, m \notin Gone(n)
        PROVE  module'[m] = module[m]
    <3>1. m \notin Reset(n)
      BY <2>2 DEF Reset
    <3> QED
      BY <1>2, <1>5, <3>1 DEF Statics
  <2> QED
    BY <1>1, <1>4, <1>5, <2>1, <2>2, ZenonT(60) DEF Owned
<1> QED
  BY <1>1, <1>6, <1>8, <1>9, <1>10, <1>11 DEF TableInv

\* No pointer dangles where libraries are not closed.
LEMMA CancelledKeepsPointers ==
  ASSUME IInv, NEW n \in Names, Cancelled(n)
  PROVE  LivePointers(ptr', opens')
<1> USE DEF IInv
<1>1. /\ ptr' = [c \in Names |->
                  IF c \in Reset(n) THEN NoPointers
                  ELSE [p \in Names |-> IF p \in Gone(n) /\ ptr[c][p] = "set" THEN "dangling" ELSE ptr[c][p]]]
      /\ opens' = IF Closes(n) THEN [opens EXCEPT ![Home[n]] = @ - 1] ELSE opens
  BY CancelledFacts
<1>2. LivePointers(ptr, opens)
  OBVIOUS
<1>3. ptr' \in [Names -> [Names -> {"null", "set", "dangling"}]]
  BY <1>1, <1>2 DEF LivePointers, NoPointers
<1>4. ASSUME physical # "yes"
      PROVE  opens' = opens /\ \A c, p \in Names : ptr'[c][p] = ptr[c][p] \/ ptr'[c][p] = "null"
  <2>1. ~Closes(n)
    BY <1>4 DEF Closes
  <2>2. Gone(n) = {}
    BY <2>1 DEF Gone
  <2> QED
    BY <1>1, <1>2, <2>1, <2>2 DEF LivePointers, NoPointers
<1> QED
  BY <1>2, <1>3, <1>4 DEF LivePointers

\* CANCEL keeps the invariant, whether it finds the program, finds it active, or neither.
LEMMA CancelStep ==
  ASSUME IInv, NEW n \in Names, Cancel(n)
  PROVE  IInv'
<1> USE DEF IInv
<1>1. physical' = physical
  BY DEF Cancel
<1>2. CASE /\ UNCHANGED <<stack, table, libs, progs, ptr>> /\ mode' \in {mode, "stopped", "undefined"}
  <2>1. /\ stack' = stack /\ table' = table /\ opens' = opens /\ dynload' = dynload /\ ptr' = ptr
        /\ init' = init /\ module' = module /\ active' = active /\ refs' = refs
    BY <1>2 DEF libs, progs
  <2>2. TableInv(table, opens, dynload, init, module)'
    BY <1>1, <2>1 DEF TableInv, Typed, Balanced, Closable, LiveEntries, Safe, Reached, Owned
  <2>3. LivePointers(ptr, opens)'
    BY <1>1, <2>1 DEF LivePointers
  <2>4. StackInv(stack, init, module, active, refs)'
    <3>1. StackInv(stack', init', module', active', refs')
      BY <2>1
    <3> QED
      BY <3>1 DEF StackInv, StackTyped, Statics, Once, Active, Referenced, On, InLib
  <2>5. mode' \in {"running", "stopped", "undefined"}
    BY <1>2
  <2> QED
    BY <1>1, <2>2, <2>3, <2>4, <2>5
<1>3. CASE InTable(n) /\ ~CancelFatal(n) /\ Cancelled(n)
  <2>1. /\ TableInv(table', opens', dynload', init', module')
        /\ StackInv(stack', init', module', active', refs') /\ LivePointers(ptr', opens')
    BY <1>3, CancelledKeepsTable, CancelledKeepsStack, CancelledKeepsPointers
  <2>2. mode' \in {mode, "undefined"}
    BY <1>3, CancelledFacts
  <2>3. TableInv(table, opens, dynload, init, module)'
    BY <1>1, <2>1 DEF TableInv, Typed, Balanced, Closable, LiveEntries, Safe, Reached, Owned
  <2>4. LivePointers(ptr, opens)'
    BY <1>1, <2>1 DEF LivePointers
  <2> QED
    BY <1>1, <2>1, <2>2, <2>3, <2>4 DEF StackInv, StackTyped, Statics, Once, Active, Referenced, On, InLib
<1> QED
  BY <1>2, <1>3 DEF Cancel, InTable, Undefined, Stop
-----------------------------------------------------------------------------
(* The inductive invariant. *)

\* The run unit begins with the entry of its main program.
LEMMA InitIInv == Init => IInv
<1> SUFFICES ASSUME Init PROVE IInv
  OBVIOUS
<1> PICK t : t = [n \in Names |-> NoEntry]
  OBVIOUS
<1>1. Main \in Names /\ 1 \in 0..MaxDepth
  BY NamesAssumption, BoundsAssumption
<1>2. Typed(t) /\ \A n \in Names : t[n].module = "absent" /\ ~t[n].handle
  BY NoEntryFacts DEF Typed
<1>3. /\ Typed(table) /\ table[Main].module = "own" /\ ~table[Main].handle
      /\ \A m \in Names \ {Main} : table[m] = t[m]
  <2>1. table = SetCancel(t, Main, 1)
    BY DEF Init
  <2> QED
    BY <1>1, <1>2, <2>1, SetCancelFacts
<1>4. Balanced(opens, dynload)
  <2>1. /\ opens = [l \in Libs |-> IF l \in Preload THEN 1 ELSE 0]
        /\ dynload = [l \in Libs |-> 0]
    BY DEF Init
  <2>2. 0 \in 0..MaxOpens /\ 1 \in 0..MaxOpens
    BY BoundsAssumption
  <2> QED
    BY <2>1, <2>2 DEF Balanced
<1>5. Closable(table, dynload)
  BY <1>2, <1>3 DEF Closable
<1>6. ~Safe(Main)
  BY HomeAssumption, NamesAssumption DEF Safe
<1>7. LiveEntries(table, opens)
  BY <1>2, <1>3, <1>6 DEF LiveEntries
<1>8. /\ init = [n \in Names |-> n = Main] /\ module = init /\ stack = <<Main>>
      /\ active = [n \in Names |-> IF n = Main THEN 1 ELSE 0] /\ refs = [l \in Libs |-> 0]
  BY DEF Init
<1>9. Kind[Main] = "NORMAL" /\ Home[Main] \notin Libs
  BY KindAssumption, HomeAssumption, NamesAssumption
<1>10. Statics(init, module)
  <2>1. \A n \in Names : (n = Main) \in BOOLEAN
    BY Zenon
  <2>2. init \in [Names -> BOOLEAN] /\ module \in [Names -> BOOLEAN]
    BY <1>8, <2>1
  <2> QED
    BY <1>8, <1>9, <2>2 DEF Statics, Plain
<1>11. Reached(table, init) /\ Owned(table, module)
  BY <1>1, <1>2, <1>3, <1>8 DEF Reached, Owned
<1>12. /\ stack \in Seq(Names) /\ Len(stack) = 1 /\ DOMAIN stack = {1} /\ stack[1] = Main
  BY <1>1, <1>8
<1>13. StackTyped(stack) /\ Once(stack, init)
  <2>1. Len(stack) \in 1..MaxDepth
    BY <1>12, BoundsAssumption
  <2>2. init[Main]
    BY <1>1, <1>8
  <2> QED
    BY <1>12, <2>1, <2>2 DEF StackTyped, Once
<1>14. Active(stack, active)
  BY <1>8, <1>9, <1>12 DEF Active, On, Plain
<1>15. Referenced(stack, refs)
  <2>1. \A l \in Libs : InLib(stack, l) = {}
    BY <1>9, <1>12 DEF InLib
  <2>2. \A l \in Libs : Cardinality(InLib(stack, l)) = 0
    BY <2>1, FS_EmptySet
  <2> QED
    BY <1>8, <2>2 DEF Referenced
<1>16. LivePointers(ptr, opens)
  BY DEF Init, LivePointers
<1>17. physical \in Settings /\ mode = "running"
  BY DEF Init
<1> QED
  BY <1>3, <1>4, <1>5, <1>7, <1>10, <1>11, <1>13, <1>14, <1>15, <1>16, <1>17
  DEF IInv, TableInv, StackInv

\* The end of the run changes nothing but the mode.
LEMMA StutterStep ==
  ASSUME IInv, UNCHANGED <<physical, stack, table, libs, progs, ptr>>, mode' \in {mode, "stopped"}
  PROVE  IInv'
<1> USE DEF IInv
<1>1. /\ physical' = physical /\ stack' = stack /\ table' = table /\ opens' = opens
      /\ dynload' = dynload /\ ptr' = ptr
      /\ init' = init /\ module' = module /\ active' = active /\ refs' = refs
  BY DEF libs, progs
<1>2. TableInv(table, opens, dynload, init, module)'
  BY <1>1 DEF TableInv, Typed, Balanced, Closable, LiveEntries, Safe, Reached, Owned
<1>3. LivePointers(ptr, opens)'
  BY <1>1 DEF LivePointers
<1>4. StackInv(stack, init, module, active, refs)'
  <2>1. StackInv(stack', init', module', active', refs')
    BY <1>1
  <2> QED
    BY <2>1 DEF StackInv, StackTyped, Statics, Once, Active, Referenced, On, InLib
<1> QED
  BY <1>1, <1>2, <1>3, <1>4

\* Every step keeps the invariant.
LEMMA NextIInv == IInv /\ [Next]_vars => IInv'
<1> SUFFICES ASSUME IInv, [Next]_vars PROVE IInv'
  OBVIOUS
<1>1. ASSUME NEW n \in Names, NEW literal \in BOOLEAN, NEW onException \in BOOLEAN,
             Call(n, literal, onException)
      PROVE  IInv'
  BY <1>1, CallStep
<1>2. CASE Return
  BY <1>2, ReturnStep
<1>3. CASE StopRun
  BY <1>3, StutterStep DEF StopRun, Stop, progs, libs
<1>4. ASSUME NEW n \in Names, Cancel(n)
      PROVE  IInv'
  BY <1>4, CancelStep
<1>5. CASE UNCHANGED vars
  BY <1>5, StutterStep DEF vars
<1> QED
  BY <1>1, <1>2, <1>3, <1>4, <1>5 DEF Next

\* Every reachable state of the run unit satisfies the inductive invariant.
THEOREM Inductive == Spec => []IInv
BY InitIInv, NextIInv, PTL DEF Spec
-----------------------------------------------------------------------------
(* What follows. *)

\* A library has no more activations than the stack has places.
LEMMA LibraryCount ==
  ASSUME IInv, NEW l \in Libs
  PROVE  Cardinality(InLib(stack, l)) \in 0..MaxDepth
<1>1. stack \in Seq(Names) /\ Len(stack) \in Nat /\ Len(stack) <= MaxDepth
  BY BoundsAssumption DEF IInv, StackInv, StackTyped
<1>2. IsFiniteSet(1..Len(stack)) /\ Cardinality(1..Len(stack)) = Len(stack)
  BY <1>1, FS_Interval
<1>3. InLib(stack, l) \subseteq 1..Len(stack)
  BY <1>1 DEF InLib
<1>4. /\ IsFiniteSet(InLib(stack, l))
      /\ Cardinality(InLib(stack, l)) <= Cardinality(1..Len(stack))
  BY <1>2, <1>3, FS_Subset
<1>5. Cardinality(InLib(stack, l)) \in Nat
  BY <1>4, FS_CardinalityType
<1> QED
  BY <1>1, <1>2, <1>4, <1>5, BoundsAssumption

\* The types follow from the invariant.
LEMMA TypeFollows == IInv => TypeOK
<1> SUFFICES ASSUME IInv PROVE TypeOK
  OBVIOUS
<1> USE DEF IInv, TableInv, StackInv
<1>1. active \in [Names -> 0..MaxDepth]
  <2>1. {0, 1} \subseteq 0..MaxDepth
    BY BoundsAssumption
  <2> QED
    BY <2>1 DEF Active
<1>2. refs \in [Libs -> 0..MaxDepth]
  <2>1. 0 \in 0..MaxDepth
    BY BoundsAssumption
  <2>2. \A l \in Libs : refs[l] \in 0..MaxDepth
    BY <2>1, LibraryCount DEF Referenced
  <2> QED
    BY <2>2 DEF Referenced
<1>3. init \in [Names -> BOOLEAN] /\ module \in [Names -> BOOLEAN]
  BY DEF Statics
<1>4. stack \in Seq(Names) /\ Len(stack) \in 1..MaxDepth
  BY DEF StackTyped
<1>5. table \in [Names -> Entries] /\ opens \in [Libs -> 0..MaxOpens] /\ dynload \in [Libs -> 0..MaxOpens]
  BY DEF Typed, Balanced
<1>6. ptr \in [Names -> [Names -> {"null", "set", "dangling"}]]
  BY DEF LivePointers
<1> QED
  BY <1>1, <1>2, <1>3, <1>4, <1>5, <1>6 DEF TypeOK

\* The counters are those of the activations.
LEMMA CountsFollow == IInv => CountsOK
<1> SUFFICES ASSUME IInv PROVE CountsOK
  OBVIOUS
<1> USE DEF IInv, StackInv
<1>1. ASSUME NEW n \in Names, Plain(n)
      PROVE  active[n] = Cardinality(Activations(n))
  <2>1. CASE On(stack, n)
    <3>1. PICK k \in DOMAIN stack : stack[k] = n
      BY <2>1 DEF On
    <3>2. Activations(n) = {k}
      BY <1>1, <3>1 DEF Once, Activations
    <3> QED
      BY <1>1, <2>1, <3>2, FS_Singleton DEF Active
  <2>2. CASE ~On(stack, n)
    <3>1. Activations(n) = {}
      BY <2>2 DEF On, Activations
    <3> QED
      BY <2>2, <3>1, FS_EmptySet DEF Active
  <2> QED
    BY <2>1, <2>2
<1>2. ASSUME NEW l \in Libs, Shared(l)
      PROVE  refs[l] = Cardinality(UNION {Activations(n) : n \in Of(l)})
  <2>1. UNION {Activations(n) : n \in Of(l)} = InLib(stack, l)
    <3>1. \A k \in DOMAIN stack : stack[k] \in Names
      BY DEF StackTyped
    <3> QED
      BY <3>1 DEF Activations, Of, InLib
  <2> QED
    BY <1>2, <2>1 DEF Referenced
<1> QED
  BY <1>1, <1>2 DEF CountsOK, Plain

\* A program alone in its library is mapped as long as something refers to it.
LEMMA LiveFollows == IInv => AloneIsLive
<1> SUFFICES ASSUME IInv, NEW n \in Names, Home[n] \in Libs, ~Shared(Home[n])
             PROVE  /\ InTable(n) => table[n].live /\ Mapped(Home[n])
                    /\ KeepsPointer(n) => ptr[Top][n] = "set" /\ Mapped(Home[n])
  BY DEF AloneIsLive
<1>1. InTable(n) => table[n].live /\ Mapped(Home[n])
  BY DEF IInv, TableInv, LiveEntries, Safe, InTable, Mapped
<1>2. KeepsPointer(n) => ptr[Top][n] = "set" /\ Mapped(Home[n])
  <2>1. Top \in Names
    BY TopFacts DEF IInv, StackInv
  <2> QED
    BY <2>1 DEF IInv, LivePointers, KeepsPointer, Mapped
<1> QED
  BY <1>1, <1>2

\* No step unloads a program that is counted on the stack.
LEMMA RunningStep ==
  ASSUME IInv, [Next]_vars, NEW n \in Names, OnStack(n),
         Kind[n] # "RECURSIVE" \/ Shared(Home[n]), Mapped(Home[n])
  PROVE  Mapped(Home[n])'
<1> USE DEF IInv
<1>1. Balanced(opens, dynload)
  BY DEF TableInv
<1>2. ASSUME NEW m \in Names, NEW literal \in BOOLEAN, NEW onException \in BOOLEAN,
             Call(m, literal, onException)
      PROVE  Mapped(Home[n])'
  <2>1. Len(stack) < MaxDepth
    BY <1>2 DEF Call
  <2>2. opens' = opens \/ ResolveAndJump(m, onException)
    BY <1>2 DEF Call, libs
  <2>3. Home[n] \in Libs => opens'[Home[n]] >= opens[Home[n]]
    BY <1>1, <1>2, <2>1, <2>2, ResolveKeeps DEF Balanced
  <2>4. IInv'
    BY <1>2, CallStep
  <2>5. Home[n] \in Libs => opens[Home[n]] \in Nat /\ opens'[Home[n]] \in Nat
    BY <1>1, <2>4 DEF TableInv, Balanced
  <2> QED
    BY <2>3, <2>5 DEF Mapped
<1>3. ASSUME NEW m \in Names, InTable(m), ~CancelFatal(m), Cancelled(m)
      PROVE  Mapped(Home[n])'
  <2>1. opens' = IF Closes(m) THEN [opens EXCEPT ![Home[m]] = @ - 1] ELSE opens
    BY <1>3, CancelledFacts
  <2>2. ~(Closes(m) /\ Home[m] = Home[n])
    <3>1. SUFFICES ASSUME Closes(m), Home[m] = Home[n] PROVE FALSE
      OBVIOUS
    <3>2. n \in Reset(m)
      BY <3>1 DEF Reset, Gone, Of
    <3>3. ~Plain(n)
      BY <1>3, <3>2, ResetIsIdle DEF OnStack, On
    <3>4. Shared(Home[n]) /\ m \in Libs /\ Home[m] = m /\ refs[m] = 0
      BY <3>1, <3>3, UnlinksFacts DEF Plain, Closes
    <3>5. Cardinality(InLib(stack, m)) = 0
      BY <3>1, <3>4 DEF StackInv, Referenced
    <3>6. IsFiniteSet(InLib(stack, m))
      <4>1. IsFiniteSet(1..Len(stack))
        BY FS_Interval DEF StackInv, StackTyped
      <4> QED
        BY <4>1, FS_Subset DEF InLib, StackInv, StackTyped
    <3>7. InLib(stack, m) = {}
      BY <3>5, <3>6, FS_EmptySet
    <3> QED
      BY <3>1, <3>4, <3>7 DEF InLib, OnStack
  <2>3. Home[n] \in Libs => opens'[Home[n]] = opens[Home[n]]
    BY <1>1, <2>1, <2>2 DEF Balanced
  <2> QED
    BY <2>3 DEF Mapped
<1>4. CASE opens' = opens
  BY <1>4 DEF Mapped
<1>5. ASSUME NEW m \in Names, Cancel(m) PROVE Mapped(Home[n])'
  BY <1>3, <1>4, <1>5 DEF Cancel, InTable, libs
<1> QED
  BY <1>2, <1>4, <1>5 DEF Next, Return, StopRun, vars, libs

\* Every variable keeps its type: no counter leaves its range, no library
\* is closed more often than it was opened.
THEOREM TypeCorrect == Spec => []TypeOK
BY Inductive, TypeFollows, PTL

\* Each lt_dlclose takes one handle out of the list of loaded libraries.
THEOREM Balance == Spec => []HandlesBalanced
<1>1. IInv => HandlesBalanced
  BY DEF IInv, TableInv, Balanced, HandlesBalanced
<1> QED
  BY <1>1, Inductive, PTL

\* The counters by which CANCEL decides are the activations on the module stack.
THEOREM Counts == Spec => []CountsOK
BY Inductive, CountsFollow, PTL

\* CANCEL reaches each program that has been called.
THEOREM Reaches == Spec => []CancelReaches
<1>1. IInv => CancelReaches
  BY DEF IInv, TableInv, Reached, CancelReaches
<1> QED
  BY <1>1, Inductive, PTL

\* Neither entry nor pointer of a program that is alone in its library dangles.
THEOREM Live == Spec => []AloneIsLive
BY Inductive, LiveFollows, PTL

\* The module that CANCEL reads belongs to the program.
THEOREM Own == Spec => []ModuleIsOwn
<1>1. IInv => ModuleIsOwn
  BY DEF IInv, TableInv, Owned, ModuleIsOwn
<1> QED
  BY <1>1, Inductive, PTL

\* No program is unloaded while it is on the stack, but for a RECURSIVE one alone in its
\* library.
THEOREM StaysLoaded == Spec => RunningStaysLoaded
<1>1. IInv /\ [Next]_vars =>
        [\A n \in Names : OnStack(n) /\ (Kind[n] # "RECURSIVE" \/ Shared(Home[n])) /\ Mapped(Home[n])
            => Mapped(Home[n])']_vars
  BY RunningStep
<1> QED
  BY <1>1, Inductive, PTL DEF Spec, RunningStaysLoaded
==============================================================================
