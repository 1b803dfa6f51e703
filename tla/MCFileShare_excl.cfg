\* Two run units with one connector each, LOCK MODE EXCLUSIVE, under fairness.
CONSTANTS
  p1 = p1
  p2 = p2
  c1 = c1
  c2 = c2
  n1 = n1
  i1 = i1
  i2 = i2
  NONE = NONE
  Procs = {p1, p2}
  Conns = {c1}
  Paths = {n1}
  Inodes = {i1, i2}
  PathOf <- MCOnePath
  Optional = {}
  LineSeq = {}
  LockModeExcl = {c1}
SPECIFICATION FairSpec
VIEW MCView
INVARIANTS ExclusiveKeepsLock
PROPERTIES DataBehindLock CallsReturn
